---- MODULE Spec2Model ----
(***************************************************************************)
(* PropUpkeep: the JSONL record store (storage/repository.py), the issue   *)
(* formatter with its single repair retry (ai/formatter.py) and the        *)
(* submission workflow (core/workflows.py), modelled as state machines.    *)
(*                                                                         *)
(* Texts are sequences of one-character strings so that strip() and the    *)
(* sanitizer are computed, not assumed.  Datetimes are integers in memory  *)
(* and <<"iso", n>> pairs inside the JSON log.  An IssueReport carries the *)
(* fields report_id, property_name, image_mime, status, comments,          *)
(* created_at and updated_at: one field of every kind of validation the    *)
(* schema has (stripped text, normalised token, enum, list of sub-models,  *)
(* datetime).                                                              *)
(***************************************************************************)
EXTENDS Integers, Sequences, FiniteSets, TLC

VARIABLES
    now,        \* the wall clock read by datetime.now(timezone.utc)
    file,       \* the JSONL log: whether it exists, and its lines
    lock,       \* JsonlIssueRepository._lock: the holder or NoThread
    pc,         \* per thread: position inside the store operation
    op,         \* per thread: the operation in progress and its arguments
    issues,     \* per thread: the local issues_by_id (insertion-ordered)
    pending,    \* per thread: ordered_issues still to be written
    result,     \* per thread: the value returned or the error raised
    calls,      \* number of store operations started so far
    rewrites,   \* number of times the log was opened with mode "w"
    snap,       \* per thread: log and rewrite count seen when the lock was taken,
                \* and the clock reading of its mutation
    serial,     \* the logical state obtained by applying the operations one at a time
    lastOp,     \* the last mutation that completed
    fpc,        \* format_issue: position
    fkey,       \* Settings.openai_api_key
    fresp,      \* the responses of the text-generation service so far
    fcalls,     \* number of urlopen calls issued
    fcontent,   \* initial_content, then repaired_content
    ferror,     \* first_error
    fresult,    \* what format_issue returned or raised
    spc,        \* submit_issue: position
    sin,        \* submit_issue: its arguments
    sout,       \* submit_issue: what it returned or raised
    sformat,    \* number of times submit_issue invoked formatter.format_issue
    sservice,   \* what the text-generation service answers during the submission
    uploads,    \* files in the uploads directory
    upc,        \* a helper function under call: position
    uin,        \* the helper called and its arguments
    uout        \* what the helper returned or raised

storeVars == <<now, file, lock, pc, op, issues, pending, result, calls,
               rewrites, snap, serial, lastOp>>

fmtVars == <<fpc, fkey, fresp, fcalls, fcontent, ferror, fresult>>

subVars == <<spc, sin, sout, sformat, sservice, uploads>>

utilVars == <<upc, uin, uout>>

vars == <<storeVars, fmtVars, subVars, utilVars>>

----------------------------------------------------------------------------
(* Bounds *)

NumThreads == 2
MaxTime == 2
MaxCalls == 2

Threads == 1..NumThreads
NoThread == 0
NoFile == [exists |-> FALSE, lines |-> <<>>]
LogFile(lines) == [exists |-> TRUE, lines |-> lines]
NoneVal == "None"

----------------------------------------------------------------------------
(* models/issue.py *)

Status == {"OPEN", "ACKNOWLEDGED", "IN_PROGRESS", "MONITORING", "RESOLVED"}

COMMENT_AUTHOR_ROLES == {"Leasing", "Maintenance", "Safety", "PM", "Vendor", "Other"}

AllowedImageMime == {"image/png", "image/jpeg", "image/jpg"}

IssueFields == {"report_id", "property_name", "image_mime", "status",
                "comments", "created_at", "updated_at"}

CommentFields == {"comment_id", "author_role", "message", "created_at"}

\* Characters: "a", "b", ... stand for printable characters, " " for a space,
\* "TAB", "NL" and "CR" for \t, \n and \r, and "CTL" for a control character
\* that is not whitespace (such as \x01).
IsSpace(c) == c \in {" ", "TAB", "NL", "CR"}

RECURSIVE LStrip(_)
LStrip(s) == IF s # <<>> /\ IsSpace(Head(s)) THEN LStrip(Tail(s)) ELSE s

RECURSIVE RStrip(_)
RStrip(s) ==
    IF s # <<>> /\ IsSpace(s[Len(s)]) THEN RStrip(SubSeq(s, 1, Len(s) - 1)) ELSE s

\* str.strip()
Strip(s) == RStrip(LStrip(s))

\* str.lower().strip() on the MIME tokens the model uses
LowerStrip(m) ==
    CASE m = "IMAGE/PNG" -> "image/png"
      [] m = " image/jpeg " -> "image/jpeg"
      [] OTHER -> m

IsoFormat(t) == <<"iso", t>>

IsIso(v) == Len(v) = 2 /\ v[1] = "iso"

ParseIso(v) == v[2]

\* Comment.model_validate on a JSON object
CommentValidate(c) ==
    IF DOMAIN c = CommentFields
          /\ c.author_role \in COMMENT_AUTHOR_ROLES
          /\ Strip(c.message) # <<>>
          /\ IsIso(c.created_at)
    THEN [ok |-> TRUE,
          value |-> [comment_id |-> c.comment_id,
                     author_role |-> c.author_role,
                     message |-> Strip(c.message),
                     created_at |-> ParseIso(c.created_at)]]
    ELSE [ok |-> FALSE]

\* Comment.model_dump(mode="json")
CommentDump(c) ==
    [comment_id |-> c.comment_id,
     author_role |-> c.author_role,
     message |-> c.message,
     created_at |-> IsoFormat(c.created_at)]

\* IssueReport.validate_image_mime after strip_input
ValidateImageMime(m) ==
    IF m = NoneVal THEN [ok |-> TRUE, value |-> NoneVal]
    ELSE IF LowerStrip(m) \in AllowedImageMime
         THEN [ok |-> TRUE, value |-> LowerStrip(m)]
         ELSE [ok |-> FALSE]

\* IssueReport.validate_comment_timestamps: a datetime is always truthy, so
\* updated_at is kept as given
ValidateCommentTimestamps(created, updated) == updated

\* IssueReport.model_validate on a JSON object (extra="forbid")
IssueValidate(p) ==
    IF DOMAIN p = IssueFields
          /\ Strip(p.property_name) # <<>>
          /\ ValidateImageMime(p.image_mime).ok
          /\ p.status \in Status
          /\ \A i \in 1..Len(p.comments) : CommentValidate(p.comments[i]).ok
          /\ IsIso(p.created_at)
          /\ IsIso(p.updated_at)
    THEN [ok |-> TRUE,
          value |-> [report_id |-> p.report_id,
                     property_name |-> Strip(p.property_name),
                     image_mime |-> ValidateImageMime(p.image_mime).value,
                     status |-> p.status,
                     comments |-> [i \in 1..Len(p.comments) |->
                                      CommentValidate(p.comments[i]).value],
                     created_at |-> ParseIso(p.created_at),
                     updated_at |-> ValidateCommentTimestamps(
                                        ParseIso(p.created_at),
                                        ParseIso(p.updated_at))]]
    ELSE [ok |-> FALSE]

\* IssueReport.model_dump(mode="json", exclude_none=False)
ModelDump(issue) ==
    [report_id |-> issue.report_id,
     property_name |-> issue.property_name,
     image_mime |-> issue.image_mime,
     status |-> issue.status,
     comments |-> [i \in 1..Len(issue.comments) |-> CommentDump(issue.comments[i])],
     created_at |-> IsoFormat(issue.created_at),
     updated_at |-> IsoFormat(issue.updated_at)]

\* IssueReport(...) called with keyword arguments: the same validation
IssueReportNew(id, name, mime, status, created, updated) ==
    IssueValidate([report_id |-> id, property_name |-> name, image_mime |-> mime,
                   status |-> status, comments |-> <<>>,
                   created_at |-> IsoFormat(created),
                   updated_at |-> IsoFormat(updated)])

\* Comment(...) with created_at from its default factory
CommentNew(cid, role, message, created) ==
    CommentValidate([comment_id |-> cid, author_role |-> role, message |-> message,
                     created_at |-> IsoFormat(created)])

----------------------------------------------------------------------------
(* storage/repository.py: pure helpers *)

\* A Python dict keeps insertion order: issues_by_id is a sequence of
\* IssueReports with pairwise different report_id.

DictHas(d, id) == \E i \in 1..Len(d) : d[i].report_id = id

DictGet(d, id) == d[CHOOSE i \in 1..Len(d) : d[i].report_id = id]

\* dict.setdefault: an existing key keeps its old value
DictSetMut(d, issue) ==
    IF DictHas(d, issue.report_id) THEN d ELSE Append(d, issue)

\* issues_by_id[issue.report_id] = issue
DictSet(d, issue) ==
    IF DictHas(d, issue.report_id)
    THEN [i \in 1..Len(d) |->
             IF d[i].report_id = issue.report_id THEN issue ELSE d[i]]
    ELSE Append(d, issue)

DictKeys(d) == {d[i].report_id : i \in 1..Len(d)}

AsMap(d) == [id \in DictKeys(d) |-> DictGet(d, id)]

JObj(v) == [t |-> "obj", v |-> v]

JOther == [t |-> "other"]

JsonLine(v) == [t |-> "json", v |-> v]

BadLine == [t |-> "bad"]

BlankLine == [t |-> "blank"]

\* _serialize_issue_entry without the status key
SerializeIssueEntryMut(issue) ==
    [entry_type |-> "issue_report",
     created_at |-> IsoFormat(issue.created_at),
     payload |-> JObj([ModelDump(issue) EXCEPT !.status = "OPEN"])]

SerializeIssueEntry(issue) ==
    [entry_type |-> "issue_report",
     created_at |-> IsoFormat(issue.created_at),
     payload |-> JObj(ModelDump(issue))]

\* the loop body with the JSONDecodeError left uncaught: the load ends with nothing
LoadLineMut(d, line) ==
    IF line.t = "bad" THEN <<>>
    ELSE IF line.t # "json" THEN d
    ELSE LET entry == line.v
             payload ==
                 IF entry.t = "obj" /\ "entry_type" \in DOMAIN entry.v
                        /\ entry.v.entry_type = "issue_report"
                 THEN IF "payload" \in DOMAIN entry.v THEN entry.v.payload ELSE JOther
                 ELSE IF entry.t = "obj" THEN entry ELSE JOther
         IN IF payload.t # "obj" THEN d
            ELSE IF IssueValidate(payload.v).ok
                 THEN DictSet(d, IssueValidate(payload.v).value)
                 ELSE d

\* the body of the "for line in handle" loop of _load_issues_map_unlocked
LoadLine(d, line) ==
    IF line.t # "json" THEN d
    ELSE LET entry == line.v
             payload ==
                 IF entry.t = "obj" /\ "entry_type" \in DOMAIN entry.v
                        /\ entry.v.entry_type = "issue_report"
                 THEN IF "payload" \in DOMAIN entry.v THEN entry.v.payload ELSE JOther
                 ELSE IF entry.t = "obj" THEN entry ELSE JOther
         IN IF payload.t # "obj" THEN d
            ELSE IF IssueValidate(payload.v).ok
                 THEN DictSet(d, IssueValidate(payload.v).value)
                 ELSE d

RECURSIVE LoadLinesMut(_, _)
RECURSIVE LoadLines(_, _)

\* the lines replayed from the last to the first
LoadLinesMut(d, lines) ==
    IF lines = <<>> THEN d
    ELSE LoadLinesMut(LoadLine(d, lines[Len(lines)]), SubSeq(lines, 1, Len(lines) - 1))

\* "for line in handle": the lines in file order
LoadLines(d, lines) ==
    IF lines = <<>> THEN d ELSE LoadLines(LoadLine(d, Head(lines)), Tail(lines))

\* _load_issues_map_unlocked
LoadIssuesMap(f) == IF ~f.exists THEN <<>> ELSE LoadLines(<<>>, f.lines)

RECURSIVE InsertByCreatedAt(_, _)
InsertByCreatedAt(x, s) ==
    IF s = <<>> THEN <<x>>
    ELSE IF Head(s).created_at <= x.created_at
         THEN <<Head(s)>> \o InsertByCreatedAt(x, Tail(s))
         ELSE <<x>> \o s

RECURSIVE SortedByCreatedAtFrom(_, _)
SortedByCreatedAtFrom(acc, s) ==
    IF s = <<>> THEN acc
    ELSE SortedByCreatedAtFrom(InsertByCreatedAt(Head(s), acc), Tail(s))


\* the values written in the order of the map, without the sort
SortedByCreatedAtMut(d) == d

\* sorted(issues_by_id.values(), key=created_at): stable, ascending
SortedByCreatedAt(d) == SortedByCreatedAtFrom(<<>>, d)

RECURSIVE InsertByUpdatedAtDesc(_, _)
InsertByUpdatedAtDesc(x, s) ==
    IF s = <<>> THEN <<x>>
    ELSE IF Head(s).updated_at >= x.updated_at
         THEN <<Head(s)>> \o InsertByUpdatedAtDesc(x, Tail(s))
         ELSE <<x>> \o s

RECURSIVE SortedByUpdatedAtDescFrom(_, _)
SortedByUpdatedAtDescFrom(acc, s) ==
    IF s = <<>> THEN acc
    ELSE SortedByUpdatedAtDescFrom(InsertByUpdatedAtDesc(Head(s), acc), Tail(s))

\* the load order returned as it is, issues.sort left out
SortedByUpdatedAtDescMut(d) == d

\* issues.sort(key=updated_at, reverse=True): stable, descending
SortedByUpdatedAtDesc(d) == SortedByUpdatedAtDescFrom(<<>>, d)

\* what list_issues() returns when it reads log f
ListIssuesOf(f) == SortedByUpdatedAtDesc(LoadIssuesMap(f))

\* the copy with created_at set to the clock reading as well
WithCommentMut(issue, comment, t) ==
    [issue EXCEPT !.comments = Append(@, comment), !.updated_at = t, !.created_at = t]

\* issue.model_copy(update={"comments": [...], "updated_at": now})
WithComment(issue, comment, t) ==
    [issue EXCEPT !.comments = Append(@, comment), !.updated_at = t]

\* issue.model_copy(update={"status": new_status, "updated_at": now})
WithStatus(issue, status, t) ==
    [issue EXCEPT !.status = status, !.updated_at = t]

----------------------------------------------------------------------------
(* Inputs of the store operations *)

Ids == {"r1", "r2"}
MissingId == "r9"
StatusInputs == {"IN_PROGRESS"}

\* IssueReports a caller can hand to upsert_issue at clock reading t: built by
\* the constructor, so validated; created_at is read before updated_at
IssueInputs(t) ==
    LET built == {IssueReportNew(id, <<"a">>, NoneVal, "OPEN", t, t) : id \in Ids}
                 \cup {IssueReportNew(id, <<" ", "b">>, "IMAGE/PNG", "RESOLVED", c, t) :
                          id \in Ids, c \in {u \in {t - 1} : u >= 0}}
    IN {b.value : b \in {x \in built : x.ok}}

\* the Comment handed to add_comment: a fresh comment_id, created at t
CommentInput(n, t) == CommentNew(n, "PM", <<" ", "m">>, t).value

NoArg == <<>>

Idle == [kind |-> "idle", id |-> NoneVal, arg |-> NoArg]

OpInputs(n, t) ==
    {[kind |-> "list_issues", id |-> NoneVal, arg |-> NoArg]}
    \cup {[kind |-> "get_issue", id |-> id, arg |-> NoArg] : id \in Ids \cup {MissingId}}
    \cup {[kind |-> "upsert_issue", id |-> i.report_id, arg |-> i] : i \in IssueInputs(t)}
    \cup {[kind |-> "add_comment", id |-> id, arg |-> CommentInput(n, t)] :
             id \in Ids \cup {MissingId}}
    \cup {[kind |-> "update_status", id |-> id, arg |-> st] :
             id \in Ids \cup {MissingId}, st \in StatusInputs}

\* a log left by an earlier run: one line per id, in created_at order
SeedIssue(id, created, updated) ==
    IssueReportNew(id, <<"a">>, NoneVal, "OPEN", created, updated).value

SeedLog ==
    LogFile(<<JsonLine(JObj(SerializeIssueEntry(SeedIssue("r1", 0, 0)))),
              JsonLine(JObj(SerializeIssueEntry(SeedIssue("r2", 0, 0))))>>)

InitialLogs == {NoFile, SeedLog}

NoResult == [kind |-> "none"]

NoError == [type |-> "none", msg |-> "none"]

NoSnap == [file |-> NoFile, rewrites |-> 0, others |-> 0, existed |-> FALSE,
           seen |-> <<>>, at |-> 0]

NoLastOp == [kind |-> "none", id |-> NoneVal, issue |-> NoArg, others |-> 0,
             existed |-> FALSE]

----------------------------------------------------------------------------
(* The serial reference: each mutation applied to a map in one step *)

SerialApply(s, o, t) ==
    CASE o.kind = "upsert_issue" ->
            [id \in DOMAIN s \cup {o.id} |-> IF id = o.id THEN o.arg ELSE s[id]]
      [] o.kind = "add_comment" /\ o.id \in DOMAIN s ->
            [s EXCEPT ![o.id] = [@ EXCEPT !.comments = Append(@, o.arg),
                                          !.updated_at = t]]
      [] o.kind = "update_status" /\ o.id \in DOMAIN s ->
            [s EXCEPT ![o.id] = [@ EXCEPT !.status = o.arg, !.updated_at = t]]
      [] OTHER -> s

----------------------------------------------------------------------------
(* storage/repository.py: the operations, one thread each *)

InitWith(logs) ==
    /\ now = 1
    /\ file \in logs
    /\ lock = NoThread
    /\ pc = [t \in Threads |-> "idle"]
    /\ op = [t \in Threads |-> Idle]
    /\ issues = [t \in Threads |-> <<>>]
    /\ pending = [t \in Threads |-> <<>>]
    /\ result = [t \in Threads |-> NoResult]
    /\ calls = 0
    /\ rewrites = 0
    /\ snap = [t \in Threads |-> NoSnap]
    /\ serial = AsMap(LoadIssuesMap(file))
    /\ lastOp = NoLastOp
    /\ fpc = "idle"
    /\ fkey = ""
    /\ fresp = <<>>
    /\ fcalls = 0
    /\ fcontent = <<>>
    /\ ferror = NoError
    /\ fresult = NoResult
    /\ spc = "idle"
    /\ sin = NoArg
    /\ sout = NoResult
    /\ sformat = 0
    /\ sservice = [kind |-> "none"]
    /\ uploads = {}
    /\ upc = "idle"
    /\ uin = [fn |-> "none"]
    /\ uout = NoResult

\* a repository object constructed over a log that an earlier run left, or
\* over no log at all
Init == InitWith(InitialLogs)

\* the wall clock advances between any two steps, or not at all
Tick ==
    /\ UNCHANGED <<fmtVars, subVars, utilVars>>
    /\ now < MaxTime
    /\ now' = now + 1
    /\ UNCHANGED <<file, lock, pc, op, issues, pending, result, calls, rewrites,
                   snap, serial, lastOp>>

\* a thread enters one of the public operations
Call(t) ==
    /\ UNCHANGED <<fmtVars, subVars, utilVars>>
    /\ pc[t] = "idle"
    /\ calls < MaxCalls
    /\ \E o \in OpInputs(calls + 1, now) : op' = [op EXCEPT ![t] = o]
    /\ pc' = [pc EXCEPT ![t] = "acquire"]
    /\ calls' = calls + 1
    /\ UNCHANGED <<now, file, lock, issues, pending, result, rewrites, snap, serial,
                   lastOp>>

\* threading.Lock taken by every thread at once
CanAcquireMut == TRUE

\* threading.Lock: free when nobody holds it
CanAcquire == lock = NoThread

\* "with self._lock:" on entry
Acquire(t) ==
    /\ UNCHANGED <<fmtVars, subVars, utilVars>>
    /\ pc[t] = "acquire"
    /\ CanAcquire
    /\ lock' = t
    /\ pc' = [pc EXCEPT ![t] = "locked"]
    /\ snap' = [snap EXCEPT ![t] = [file |-> file, rewrites |-> rewrites,
                                    others |-> 0, existed |-> FALSE,
                                    seen |-> serial, at |-> 0]]
    /\ UNCHANGED <<now, file, op, issues, pending, result, calls, rewrites, serial,
                   lastOp>>

\* list_issues, inside the lock: the load
ListIssuesLoad(t) ==
    /\ UNCHANGED <<fmtVars, subVars, utilVars>>
    /\ pc[t] = "locked" /\ op[t].kind = "list_issues"
    /\ issues' = [issues EXCEPT ![t] = LoadIssuesMap(file)]
    /\ pc' = [pc EXCEPT ![t] = "unlock"]
    /\ UNCHANGED <<now, file, lock, op, pending, result, calls, rewrites, snap,
                   serial, lastOp>>

\* get_issue, inside the lock
GetIssue(t) ==
    /\ UNCHANGED <<fmtVars, subVars, utilVars>>
    /\ pc[t] = "locked" /\ op[t].kind = "get_issue"
    /\ LET d == LoadIssuesMap(file)
       IN /\ issues' = [issues EXCEPT ![t] = d]
          /\ result' = [result EXCEPT ![t] =
                 IF DictHas(d, op[t].id)
                 THEN [kind |-> "issue", issue |-> DictGet(d, op[t].id)]
                 ELSE [kind |-> "absent"]]
    /\ pc' = [pc EXCEPT ![t] = "unlock"]
    /\ UNCHANGED <<now, file, lock, op, pending, calls, rewrites, snap, serial,
                   lastOp>>

\* upsert_issue, inside the lock up to the rewrite
UpsertIssue(t) ==
    /\ UNCHANGED <<fmtVars, subVars, utilVars>>
    /\ pc[t] = "locked" /\ op[t].kind = "upsert_issue"
    /\ LET d == LoadIssuesMap(file)
       IN /\ issues' = [issues EXCEPT ![t] = DictSet(d, op[t].arg)]
          /\ snap' = [snap EXCEPT ![t].others = Cardinality(DictKeys(d) \ {op[t].id}),
                                  ![t].existed = DictHas(d, op[t].id),
                                  ![t].at = now]
    /\ result' = [result EXCEPT ![t] = [kind |-> "issue", issue |-> op[t].arg]]
    /\ serial' = SerialApply(serial, op[t], now)
    /\ pc' = [pc EXCEPT ![t] = "open_w"]
    /\ UNCHANGED <<now, file, lock, op, pending, calls, rewrites, lastOp>>

\* add_comment with the rewrite placed before the lookup check
AddCommentMut(t) ==
    /\ UNCHANGED <<fmtVars, subVars, utilVars>>
    /\ pc[t] = "locked" /\ op[t].kind = "add_comment"
    /\ LET d == LoadIssuesMap(file)
       IN IF ~DictHas(d, op[t].id)
          THEN /\ result' = [result EXCEPT ![t] = [kind |-> "not_found"]]
               /\ issues' = [issues EXCEPT ![t] = d]
               /\ pc' = [pc EXCEPT ![t] = "open_w"]
               /\ UNCHANGED <<snap, serial>>
          ELSE LET updated_issue == WithComment(DictGet(d, op[t].id), op[t].arg, now)
               IN /\ issues' = [issues EXCEPT ![t] = DictSet(d, updated_issue)]
                  /\ result' = [result EXCEPT ![t] =
                         [kind |-> "issue", issue |-> updated_issue]]
                  /\ snap' = [snap EXCEPT
                         ![t].others = Cardinality(DictKeys(d) \ {op[t].id}),
                         ![t].existed = TRUE,
                         ![t].at = now]
                  /\ serial' = SerialApply(serial, op[t], now)
                  /\ pc' = [pc EXCEPT ![t] = "open_w"]
    /\ UNCHANGED <<now, file, lock, op, pending, calls, rewrites, lastOp>>

\* add_comment, inside the lock up to the rewrite
AddComment(t) ==
    /\ UNCHANGED <<fmtVars, subVars, utilVars>>
    /\ pc[t] = "locked" /\ op[t].kind = "add_comment"
    /\ LET d == LoadIssuesMap(file)
       IN IF ~DictHas(d, op[t].id)
          THEN /\ result' = [result EXCEPT ![t] = [kind |-> "not_found"]]
               /\ issues' = [issues EXCEPT ![t] = d]
               /\ pc' = [pc EXCEPT ![t] = "unlock"]
               /\ UNCHANGED <<snap, serial>>
          ELSE LET updated_issue == WithComment(DictGet(d, op[t].id), op[t].arg, now)
               IN /\ issues' = [issues EXCEPT ![t] = DictSet(d, updated_issue)]
                  /\ result' = [result EXCEPT ![t] =
                         [kind |-> "issue", issue |-> updated_issue]]
                  /\ snap' = [snap EXCEPT
                         ![t].others = Cardinality(DictKeys(d) \ {op[t].id}),
                         ![t].existed = TRUE,
                         ![t].at = now]
                  /\ serial' = SerialApply(serial, op[t], now)
                  /\ pc' = [pc EXCEPT ![t] = "open_w"]
    /\ UNCHANGED <<now, file, lock, op, pending, calls, rewrites, lastOp>>

\* update_status, inside the lock up to the rewrite
UpdateStatus(t) ==
    /\ UNCHANGED <<fmtVars, subVars, utilVars>>
    /\ pc[t] = "locked" /\ op[t].kind = "update_status"
    /\ LET d == LoadIssuesMap(file)
       IN IF ~DictHas(d, op[t].id)
          THEN /\ result' = [result EXCEPT ![t] = [kind |-> "not_found"]]
               /\ issues' = [issues EXCEPT ![t] = d]
               /\ pc' = [pc EXCEPT ![t] = "unlock"]
               /\ UNCHANGED <<snap, serial>>
          ELSE LET updated_issue == WithStatus(DictGet(d, op[t].id), op[t].arg, now)
               IN /\ issues' = [issues EXCEPT ![t] = DictSet(d, updated_issue)]
                  /\ result' = [result EXCEPT ![t] =
                         [kind |-> "issue", issue |-> updated_issue]]
                  /\ snap' = [snap EXCEPT
                         ![t].others = Cardinality(DictKeys(d) \ {op[t].id}),
                         ![t].existed = TRUE,
                         ![t].at = now]
                  /\ serial' = SerialApply(serial, op[t], now)
                  /\ pc' = [pc EXCEPT ![t] = "open_w"]
    /\ UNCHANGED <<now, file, lock, op, pending, calls, rewrites, lastOp>>



\* the log opened with mode "a": the old lines stay
OpenForAppendMut(t) ==
    /\ UNCHANGED <<fmtVars, subVars, utilVars>>
    /\ pc[t] = "open_w"
    /\ pending' = [pending EXCEPT ![t] = SortedByCreatedAt(issues[t])]
    /\ file' = LogFile(IF file.exists THEN file.lines ELSE <<>>)
    /\ rewrites' = rewrites + 1
    /\ pc' = [pc EXCEPT ![t] = "write"]
    /\ UNCHANGED <<now, lock, op, issues, result, calls, snap, serial, lastOp>>

\* the rewrite started after the "with self._lock" block has been left
OpenForWriteMut(t) ==
    /\ UNCHANGED <<fmtVars, subVars, utilVars>>
    /\ pc[t] = "open_w"
    /\ pending' = [pending EXCEPT ![t] = SortedByCreatedAt(issues[t])]
    /\ file' = LogFile(<<>>)
    /\ rewrites' = rewrites + 1
    /\ lock' = NoThread
    /\ pc' = [pc EXCEPT ![t] = "write"]
    /\ UNCHANGED <<now, op, issues, result, calls, snap, serial, lastOp>>

\* _rewrite_all_issues_unlocked: sort, then open(..., "w") truncates the log
OpenForWrite(t) ==
    /\ UNCHANGED <<fmtVars, subVars, utilVars>>
    /\ pc[t] = "open_w"
    /\ pending' = [pending EXCEPT ![t] = SortedByCreatedAt(issues[t])]
    /\ file' = LogFile(<<>>)
    /\ rewrites' = rewrites + 1
    /\ pc' = [pc EXCEPT ![t] = "write"]
    /\ UNCHANGED <<now, lock, op, issues, result, calls, snap, serial, lastOp>>

\* _rewrite_all_issues_unlocked: one handle.write of an entry and its newline
WriteLine(t) ==
    /\ UNCHANGED <<fmtVars, subVars, utilVars>>
    /\ pc[t] = "write"
    /\ pending[t] # <<>>
    /\ file' = LogFile(Append(file.lines,
                   JsonLine(JObj(SerializeIssueEntry(Head(pending[t]))))))
    /\ pending' = [pending EXCEPT ![t] = Tail(@)]
    /\ UNCHANGED <<now, lock, pc, op, issues, result, calls, rewrites, snap, serial,
                   lastOp>>

\* the rewrite is finished: the handle closes and "with self._lock" exits
CloseAndRelease(t) ==
    /\ UNCHANGED <<fmtVars, subVars, utilVars>>
    /\ pc[t] = "write"
    /\ pending[t] = <<>>
    /\ lock' = NoThread
    /\ pc' = [pc EXCEPT ![t] = "returned"]
    /\ lastOp' = IF result[t].kind = "issue"
                 THEN [kind |-> op[t].kind, id |-> op[t].id,
                       issue |-> result[t].issue, others |-> snap[t].others,
                       existed |-> snap[t].existed]
                 ELSE lastOp
    /\ UNCHANGED <<now, file, op, issues, pending, result, calls, rewrites, snap,
                   serial>>


\* the "with self._lock" block left by an exception without the release
ReleaseMut(t) ==
    /\ UNCHANGED <<fmtVars, subVars, utilVars>>
    /\ pc[t] = "unlock"
    /\ lock' = IF result[t].kind \in {"raise", "not_found"} THEN lock ELSE NoThread
    /\ pc' = [pc EXCEPT ![t] = IF op[t].kind = "list_issues" /\ result[t].kind # "raise"
                               THEN "sort" ELSE "returned"]
    /\ UNCHANGED <<now, file, op, issues, pending, result, calls, rewrites, snap,
                   serial, lastOp>>

\* "with self._lock" exits without a rewrite: a return or a raised not-found
Release(t) ==
    /\ UNCHANGED <<fmtVars, subVars, utilVars>>
    /\ pc[t] = "unlock"
    /\ lock' = NoThread
    /\ pc' = [pc EXCEPT ![t] = IF op[t].kind = "list_issues" /\ result[t].kind # "raise"
                               THEN "sort" ELSE "returned"]
    /\ UNCHANGED <<now, file, op, issues, pending, result, calls, rewrites, snap,
                   serial, lastOp>>

\* list_issues, after the lock: list(values), sort, return
ListIssuesSort(t) ==
    /\ UNCHANGED <<fmtVars, subVars, utilVars>>
    /\ pc[t] = "sort"
    /\ result' = [result EXCEPT ![t] =
           [kind |-> "list", list |-> SortedByUpdatedAtDesc(issues[t])]]
    /\ pc' = [pc EXCEPT ![t] = "returned"]
    /\ UNCHANGED <<now, file, lock, op, issues, pending, calls, rewrites, snap,
                   serial, lastOp>>

\* the caller has the return value or the exception; the locals are dropped
Return(t) ==
    /\ UNCHANGED <<fmtVars, subVars, utilVars>>
    /\ pc[t] = "returned"
    /\ pc' = [pc EXCEPT ![t] = "idle"]
    /\ op' = [op EXCEPT ![t] = Idle]
    /\ issues' = [issues EXCEPT ![t] = <<>>]
    /\ result' = [result EXCEPT ![t] = NoResult]
    /\ snap' = [snap EXCEPT ![t] = NoSnap]
    /\ UNCHANGED <<now, file, lock, pending, calls, rewrites, serial, lastOp>>

Next ==
    \/ Tick
    \/ \E t \in Threads : Call(t)
    \/ \E t \in Threads : Acquire(t)
    \/ \E t \in Threads : ListIssuesLoad(t)
    \/ \E t \in Threads : GetIssue(t)
    \/ \E t \in Threads : UpsertIssue(t)
    \/ \E t \in Threads : AddComment(t)
    \/ \E t \in Threads : UpdateStatus(t)
    \/ \E t \in Threads : OpenForWrite(t)
    \/ \E t \in Threads : WriteLine(t)
    \/ \E t \in Threads : CloseAndRelease(t)
    \/ \E t \in Threads : Release(t)
    \/ \E t \in Threads : ListIssuesSort(t)
    \/ \E t \in Threads : Return(t)

Spec == Init /\ [][Next]_vars

----------------------------------------------------------------------------
(* Properties of the record store *)

\* no thread is between its load and the end of its rewrite
Quiescent == \A t \in Threads : pc[t] \in {"idle", "acquire", "sort", "returned"}

\* what replaying the log yields now
LogicalState == AsMap(LoadIssuesMap(file))

\* C1: no lost updates. Whenever no store operation is under way, replaying the
\* log gives exactly the state obtained by applying the operations that ran
\* so far one after the other, so concurrent add_comment, update_status and
\* upsert_issue calls (also on one report id) all leave their effect.
C1_NoLostUpdates == Quiescent => LogicalState = serial

\* two add_comment calls on one id overlapped and both comments are in the log
C1_Witness ==
    \E t1, t2 \in Threads : \E id \in Ids :
        /\ t1 # t2
        /\ \A t \in {t1, t2} :
              pc[t] = "returned" /\ op[t].kind = "add_comment" /\ op[t].id = id
        /\ id \in DOMAIN LogicalState
        /\ Len(LogicalState[id].comments) = 2
        /\ \A t \in {t1, t2} : \E i \in 1..2 : LogicalState[id].comments[i] = op[t].arg

\* C6: add_comment and update_status on a report id that is not in the store
\* raise the not-found PersistenceError, and until the lock is released the
\* log is what it was when the lock was taken and was never opened for writing.
C6_NotFoundLeavesStore ==
    \A t \in Threads :
        (/\ lock = t
         /\ pc[t] # "locked"
         /\ op[t].kind \in {"add_comment", "update_status"}
         /\ op[t].id \notin DOMAIN snap[t].seen)
        => /\ result[t].kind = "not_found"
           /\ file = snap[t].file
           /\ rewrites = snap[t].rewrites

\* a not-found error was raised against a log that holds records
C6_Witness ==
    \E t \in Threads :
        /\ pc[t] = "unlock"
        /\ op[t].kind \in {"add_comment", "update_status"}
        /\ result[t].kind = "not_found"
        /\ file.exists /\ Len(file.lines) = 2

\* C7: after upsert_issue on a report id, list_issues() holds exactly one
\* entry for that id, that entry is the record of the latest call, and the
\* number of records with other ids is what it was before the call.
C7_UpsertIdempotent ==
    (lock = NoThread /\ lastOp.kind = "upsert_issue")
    => LET l == ListIssuesOf(file)
       IN /\ Cardinality({i \in 1..Len(l) : l[i].report_id = lastOp.id}) = 1
          /\ \A i \in 1..Len(l) : l[i].report_id = lastOp.id => l[i] = lastOp.issue
          /\ Cardinality({i \in 1..Len(l) : l[i].report_id # lastOp.id}) = lastOp.others

\* the log did not exist, and two upsert_issue calls on one id have completed
C7_Witness ==
    /\ lock = NoThread
    /\ lastOp.kind = "upsert_issue"
    /\ lastOp.existed
    /\ rewrites = 2
    /\ Len(file.lines) = 1

\* C8: round trip. get_issue returns, field for field, the record that was
\* written for that id (absent if none was), and after upsert_issue the
\* record handed to it is an element of list_issues().
C8_RoundTrip ==
    /\ \A t \in Threads :
          (pc[t] = "returned" /\ op[t].kind = "get_issue")
          => IF op[t].id \in DOMAIN snap[t].seen
             THEN /\ result[t].kind = "issue"
                  /\ result[t].issue = snap[t].seen[op[t].id]
             ELSE result[t].kind = "absent"
    /\ (lock = NoThread /\ lastOp.kind = "upsert_issue")
       => \E i \in 1..Len(ListIssuesOf(file)) : ListIssuesOf(file)[i] = lastOp.issue

\* get_issue reloaded a record that upsert_issue wrote with a non-default
\* status and a normalised MIME type
C8_Witness ==
    \E t \in Threads :
        /\ pc[t] = "returned" /\ op[t].kind = "get_issue"
        /\ result[t].kind = "issue"
        /\ lastOp.kind = "upsert_issue" /\ lastOp.id = op[t].id
        /\ result[t].issue = lastOp.issue
        /\ result[t].issue.status = "RESOLVED"
        /\ result[t].issue.image_mime = "image/png"
        /\ result[t].issue.created_at < result[t].issue.updated_at

\* C9: list_issues() returns every record of the logical state exactly once,
\* and every element's updated_at is at least that of the element after it.
C9_ListSorted ==
    \A t \in Threads :
        (pc[t] = "returned" /\ op[t].kind = "list_issues")
        => LET l == result[t].list
           IN /\ \A i \in 1..(Len(l) - 1) : l[i].updated_at >= l[i + 1].updated_at
              /\ Len(l) = Cardinality(DOMAIN snap[t].seen)
              /\ \A id \in DOMAIN snap[t].seen : \E i \in 1..Len(l) : l[i] = snap[t].seen[id]

\* list_issues returned two records in the reverse of their order in the log
C9_Witness ==
    \E t \in Threads :
        /\ pc[t] = "returned" /\ op[t].kind = "list_issues"
        /\ Len(result[t].list) = 2
        /\ result[t].list[1].report_id = "r2"
        /\ result[t].list[1].updated_at > result[t].list[2].updated_at
        /\ result[t].list[1].created_at >= result[t].list[2].created_at

\* C10: immediately after a successful add_comment or update_status the
\* record with that id is the first element of list_issues().
C10_MoveToFront ==
    (lock = NoThread /\ lastOp.kind \in {"add_comment", "update_status"})
    => ListIssuesOf(file)[1].report_id = lastOp.id

\* what replaying the log yielded when thread t took the lock
StoredAtAcquire(t) == AsMap(LoadIssuesMap(snap[t].file))

IsPrefix(a, b) == Len(a) <= Len(b) /\ \A i \in 1..Len(a) : a[i] = b[i]

\* C14: comments are append-only. Every store operation that releases the
\* lock leaves, for every report id that was stored when it took the lock, a
\* comment list of which the earlier comment list is a prefix: no comment is
\* removed, reordered or modified, by any sequence of operations.
C14_CommentsAppendOnly ==
    [][(lock # NoThread /\ lock' = NoThread)
       => \A id \in DOMAIN StoredAtAcquire(lock) :
              id \in DOMAIN LogicalState'
              => IsPrefix(StoredAtAcquire(lock)[id].comments,
                          LogicalState'[id].comments)]_vars

\* thread t has written the last line of its rewrite and still holds the lock
Written(t) == lock = t /\ pc[t] = "write" /\ pending[t] = <<>>

\* C15: updated_at is bumped on every mutation. When upsert_issue on an
\* existing id, add_comment or update_status has rewritten the log, the
\* record's stored updated_at is the clock reading of the mutation and is
\* later than the value stored before.
C15_UpdatedAtBumped ==
    \A t \in Threads :
        (/\ Written(t)
         /\ op[t].kind \in {"upsert_issue", "add_comment", "update_status"}
         /\ op[t].id \in DOMAIN StoredAtAcquire(t))
        => /\ LogicalState[op[t].id].updated_at = snap[t].at
           /\ LogicalState[op[t].id].updated_at > StoredAtAcquire(t)[op[t].id].updated_at

\* C16: frame of the in-place updates. When add_comment(id, c) has rewritten
\* the log, the logical state is the one it found except that the target's
\* comments have c appended as the last element and its updated_at is new;
\* when update_status(id, s) has, except that the target's status is s and
\* its updated_at is new.  Every other field of the target and every other
\* record is unchanged.
C16_Frame ==
    \A t \in Threads :
        (Written(t) /\ op[t].kind \in {"add_comment", "update_status"})
        => LET before == StoredAtAcquire(t)
               id == op[t].id
               stamp == LogicalState[id].updated_at
           IN /\ DOMAIN LogicalState = DOMAIN before
              /\ op[t].kind = "add_comment"
                 => LogicalState =
                        [before EXCEPT ![id] =
                            [@ EXCEPT !.comments = Append(@, op[t].arg),
                                      !.updated_at = stamp]]
              /\ op[t].kind = "update_status"
                 => LogicalState =
                        [before EXCEPT ![id] =
                            [@ EXCEPT !.status = op[t].arg, !.updated_at = stamp]]

\* add_comment has rewritten a log of two records whose target was stored
\* with status RESOLVED and a MIME type
C16_Witness ==
    \E t \in Threads :
        /\ Written(t) /\ op[t].kind = "add_comment"
        /\ Cardinality(DOMAIN StoredAtAcquire(t)) = 2
        /\ StoredAtAcquire(t)[op[t].id].status = "RESOLVED"
        /\ LogicalState[op[t].id].status = "RESOLVED"
        /\ LogicalState[op[t].id].comments = <<op[t].arg>>

----------------------------------------------------------------------------
(* The process dies and is started again *)

\* the process dies: every thread stops where it is; the log stays as the
\* last completed write left it
Crash ==
    /\ UNCHANGED <<fmtVars, subVars, utilVars>>
    /\ \E t \in Threads : pc[t] # "crashed"
    /\ pc' = [t \in Threads |-> "crashed"]
    /\ UNCHANGED <<now, file, lock, op, issues, pending, result, calls, rewrites,
                   snap, serial, lastOp>>

\* a new process constructs a JsonlIssueRepository over the log it finds
Restart ==
    /\ UNCHANGED <<fmtVars, subVars, utilVars>>
    /\ \A t \in Threads : pc[t] = "crashed"
    /\ lock' = NoThread
    /\ pc' = [t \in Threads |-> "idle"]
    /\ op' = [t \in Threads |-> Idle]
    /\ issues' = [t \in Threads |-> <<>>]
    /\ pending' = [t \in Threads |-> <<>>]
    /\ result' = [t \in Threads |-> NoResult]
    /\ snap' = [t \in Threads |-> NoSnap]
    /\ serial' = AsMap(LoadIssuesMap(file))
    /\ lastOp' = NoLastOp
    /\ UNCHANGED <<now, file, calls, rewrites>>

NextCrash ==
    \/ Next
    \/ Crash
    \/ Restart

SpecCrash == Init /\ [][NextCrash]_vars

Crashed == \A t \in Threads : pc[t] = "crashed"

\* C13: crash tolerance. When the process has died, replaying the log gives
\* either the logical state after the operations applied so far or, if an
\* operation held the lock, the logical state that operation found when it
\* took the lock; so no record persisted before the operation is lost.
C13_CrashTolerant ==
    Crashed
    => \/ LogicalState = serial
       \/ \E t \in Threads : lock = t /\ LogicalState = snap[t].seen

----------------------------------------------------------------------------
(* Replay of a log that earlier runs, older versions and other writers left *)

MaxLines == 3

\* the line upsert_issue writes for an issue
WrappedLine(issue) == JsonLine(JObj(SerializeIssueEntry(issue)))

\* a line of the older format: the payload itself, without the wrapper
LegacyLine(issue) == JsonLine(JObj(ModelDump(issue)))

\* a wrapper line whose payload fails IssueReport validation (unknown status)
InvalidPayloadLine(issue) ==
    JsonLine(JObj([SerializeIssueEntry(issue) EXCEPT
                      !.payload = JObj([ModelDump(issue) EXCEPT !.status = "CLOSED"])]))

\* a wrapper line whose payload is not an object
NonObjectPayloadLine(issue) ==
    JsonLine(JObj([SerializeIssueEntry(issue) EXCEPT !.payload = JOther]))

ReplayLines ==
    {WrappedLine(SeedIssue("r1", 0, 0)),
     WrappedLine(IssueReportNew("r1", <<"b">>, "image/png", "RESOLVED", 0, 1).value),
     WrappedLine(SeedIssue("r2", 0, 0)),
     LegacyLine(IssueReportNew("r2", <<"b">>, NoneVal, "ACKNOWLEDGED", 0, 1).value),
     InvalidPayloadLine(SeedIssue("r1", 0, 0)),
     NonObjectPayloadLine(SeedIssue("r1", 0, 0)),
     JsonLine(JOther),
     BadLine,
     BlankLine}

ReplayLogs ==
    {NoFile} \cup {LogFile(l) : l \in UNION {[1..n -> ReplayLines] : n \in 0..MaxLines}}

\* the first operation of a process on the log it finds
ReplayCall(t) ==
    /\ UNCHANGED <<fmtVars, subVars, utilVars>>
    /\ pc[t] = "idle"
    /\ calls = 0
    /\ \E o \in OpInputs(calls + 1, now) : op' = [op EXCEPT ![t] = o]
    /\ pc' = [pc EXCEPT ![t] = "acquire"]
    /\ calls' = calls + 1
    /\ UNCHANGED <<now, file, lock, issues, pending, result, rewrites, snap, serial,
                   lastOp>>

NextReplay ==
    \/ \E t \in Threads : ReplayCall(t)
    \/ \E t \in Threads : Acquire(t)
    \/ \E t \in Threads : ListIssuesLoad(t)
    \/ \E t \in Threads : GetIssue(t)
    \/ \E t \in Threads : UpsertIssue(t)
    \/ \E t \in Threads : AddComment(t)
    \/ \E t \in Threads : UpdateStatus(t)
    \/ \E t \in Threads : OpenForWrite(t)
    \/ \E t \in Threads : WriteLine(t)
    \/ \E t \in Threads : CloseAndRelease(t)
    \/ \E t \in Threads : Release(t)
    \/ \E t \in Threads : ListIssuesSort(t)
    \/ \E t \in Threads : Return(t)

SpecReplay == InitWith(ReplayLogs) /\ [][NextReplay]_vars

----------------------------------------------------------------------------
(* Properties of the replay *)

\* the record a single line carries: <<>> or a one-element mapping
LineIssue(line) == LoadLine(<<>>, line)

\* the positions of the lines of log f that carry a record with report id id
ValidLinesFor(f, id) ==
    {i \in 1..Len(f.lines) :
        LineIssue(f.lines[i]) # <<>> /\ LineIssue(f.lines[i])[1].report_id = id}

\* the record of the last such line
LastLineIssue(f, id) ==
    LineIssue(f.lines[CHOOSE i \in ValidLinesFor(f, id) :
                          \A j \in ValidLinesFor(f, id) : j <= i])[1]

\* C11: replay is last-write-wins. get_issue(id) returns the record of the
\* last valid line with that report id in file order (nothing if there is no
\* such line), and list_issues() holds exactly one record for each id that
\* has a valid line, again the one of the last such line.
C11_LastWriteWins ==
    \A t \in Threads :
        /\ (pc[t] = "returned" /\ op[t].kind = "get_issue")
           => IF ValidLinesFor(snap[t].file, op[t].id) = {}
              THEN result[t].kind = "absent"
              ELSE result[t] = [kind |-> "issue",
                                issue |-> LastLineIssue(snap[t].file, op[t].id)]
        /\ (pc[t] = "returned" /\ op[t].kind = "list_issues")
           => LET l == result[t].list
              IN /\ \A id \in Ids :
                       Cardinality({i \in 1..Len(l) : l[i].report_id = id})
                           = IF ValidLinesFor(snap[t].file, id) = {} THEN 0 ELSE 1
                 /\ \A i \in 1..Len(l) :
                       l[i] = LastLineIssue(snap[t].file, l[i].report_id)

\* get_issue returned the record of the third line of a log whose first line
\* carries another record with the same id
C11_Witness ==
    \E t \in Threads :
        /\ pc[t] = "returned" /\ op[t].kind = "get_issue"
        /\ ValidLinesFor(snap[t].file, op[t].id) = {1, 3}
        /\ LineIssue(snap[t].file.lines[1]) # LineIssue(snap[t].file.lines[3])
        /\ result[t].kind = "issue"
        /\ <<result[t].issue>> = LineIssue(snap[t].file.lines[3])

\* the line carries no record and is not blank: not JSON, not an object, or
\* a payload that is not an object or fails validation
IsBadLine(line) == line.t # "blank" /\ LineIssue(line) = <<>>

----------------------------------------------------------------------------
(* models/issue.py: AIFormattedIssue.  Of its fields the model keeps issue,  *)
(* urgency, category, confidence, needs_followup and followup_questions;    *)
(* confidence scores are in hundredths.                                     *)

Urgency == {"High", "Medium", "Low", "Unknown"}

IssueCategory == {"Safety", "Plumbing", "Electrical", "HVAC", "Appliance",
                  "Cosmetic", "General", "Unknown"}

AIFields == {"issue", "urgency", "category", "confidence", "needs_followup",
             "followup_questions"}

AIRequired == {"issue", "urgency", "category", "confidence"}

\* value.strip() and value.strip().lower() on the enum tokens the model uses
StripToken(v) == IF v = " high " THEN "high" ELSE v

LowerToken(v) ==
    CASE v \in {"High", "HIGH", " high "} -> "high"
      [] v = "Medium" -> "medium"
      [] v = "Low" -> "low"
      [] v = "Unknown" -> "unknown"
      [] v = "Safety" -> "safety"
      [] v \in {"Plumbing", "PLUMBING"} -> "plumbing"
      [] v = "Electrical" -> "electrical"
      [] v = "HVAC" -> "hvac"
      [] v = "Appliance" -> "appliance"
      [] v = "Cosmetic" -> "cosmetic"
      [] v = "General" -> "general"
      [] OTHER -> v

UrgencyMapping ==
    [k \in {"high", "medium", "low", "unknown"} |->
        CASE k = "high" -> "High" [] k = "medium" -> "Medium"
          [] k = "low" -> "Low" [] OTHER -> "Unknown"]

CategoryMapping ==
    [k \in {"safety", "plumbing", "electrical", "hvac", "appliance", "cosmetic",
            "general", "unknown"} |->
        CASE k = "safety" -> "Safety" [] k = "plumbing" -> "Plumbing"
          [] k = "electrical" -> "Electrical" [] k = "hvac" -> "HVAC"
          [] k = "appliance" -> "Appliance" [] k = "cosmetic" -> "Cosmetic"
          [] k = "general" -> "General" [] OTHER -> "Unknown"]

\* AIFormattedIssue.normalize_urgency
NormalizeUrgency(v) ==
    IF LowerToken(v) \in DOMAIN UrgencyMapping
    THEN UrgencyMapping[LowerToken(v)] ELSE StripToken(v)

\* AIFormattedIssue.normalize_category
NormalizeCategory(v) ==
    IF LowerToken(v) \in DOMAIN CategoryMapping
    THEN CategoryMapping[LowerToken(v)] ELSE StripToken(v)

SeqHas(s, x) == \E i \in 1..Len(s) : s[i] = x

RECURSIVE NormalizeFollowupsFrom(_, _)
NormalizeFollowupsFrom(questions, value) ==
    IF value = <<>> THEN questions
    ELSE LET cleaned == Strip(Head(value))
         IN NormalizeFollowupsFrom(
                IF cleaned # <<>> /\ ~SeqHas(questions, cleaned)
                THEN Append(questions, cleaned) ELSE questions,
                Tail(value))

\* AIFormattedIssue.normalize_followups
NormalizeFollowups(value) == NormalizeFollowupsFrom(<<>>, value)

ValidationError(field) == [type |-> "ValidationError", msg |-> field]

FollowupConsistentMut(needs_followup, questions) == TRUE

\* AIFormattedIssue.validate_followup_consistency
FollowupConsistent(needs_followup, questions) == ~(needs_followup /\ questions = <<>>)

\* AIFormattedIssue.model_validate on a JSON object (extra="forbid")
AIValidate(p) ==
    LET needs == IF "needs_followup" \in DOMAIN p THEN p.needs_followup ELSE FALSE
        questions == IF "followup_questions" \in DOMAIN p
                     THEN NormalizeFollowups(p.followup_questions) ELSE <<>>
    IN IF ~(DOMAIN p \subseteq AIFields) THEN [ok |-> FALSE, error |-> ValidationError("extra")]
       ELSE IF ~(AIRequired \subseteq DOMAIN p)
            THEN [ok |-> FALSE, error |-> ValidationError("missing")]
       ELSE IF Len(Strip(p.issue)) < 3
            THEN [ok |-> FALSE, error |-> ValidationError("issue")]
       ELSE IF NormalizeUrgency(p.urgency) \notin Urgency
            THEN [ok |-> FALSE, error |-> ValidationError("urgency")]
       ELSE IF NormalizeCategory(p.category) \notin IssueCategory
            THEN [ok |-> FALSE, error |-> ValidationError("category")]
       ELSE IF ~(p.confidence.category \in 0..100 /\ p.confidence.urgency \in 0..100)
            THEN [ok |-> FALSE, error |-> ValidationError("confidence")]
       ELSE IF ~FollowupConsistent(needs, questions)
            THEN [ok |-> FALSE, error |-> ValidationError("followup_questions")]
       ELSE [ok |-> TRUE,
             value |-> [issue |-> Strip(p.issue),
                        urgency |-> NormalizeUrgency(p.urgency),
                        category |-> NormalizeCategory(p.category),
                        confidence |-> p.confidence,
                        needs_followup |-> needs,
                        followup_questions |-> questions]]

----------------------------------------------------------------------------
(* ai/formatter.py *)

\* A generated text: whether it starts with a ``` fence, whether prose
\* surrounds the JSON, and the JSON it carries: an object, an array, braces
\* that do not parse, or none.

\* _extract_json_payload
ExtractJsonPayload(c) ==
    LET text == IF c.fence THEN [c EXCEPT !.fence = FALSE] ELSE c
        direct == ~text.fence /\ ~text.prose /\ c.json.shape \in {"object", "array"}
    IN IF direct
       THEN IF c.json.shape = "object"
            THEN [ok |-> TRUE, value |-> c.json.v]
            ELSE [ok |-> FALSE, error |-> [type |-> "ValueError", msg |-> "not_object"]]
       ELSE IF c.json.shape \in {"object", "broken"}
            THEN IF c.json.shape = "object"
                 THEN [ok |-> TRUE, value |-> c.json.v]
                 ELSE [ok |-> FALSE,
                       error |-> [type |-> "JSONDecodeError", msg |-> "broken"]]
            ELSE [ok |-> FALSE, error |-> [type |-> "ValueError", msg |-> "no_json"]]

\* _parse_and_validate
ParseAndValidate(c) ==
    IF ExtractJsonPayload(c).ok
    THEN AIValidate(ExtractJsonPayload(c).value)
    ELSE ExtractJsonPayload(c)

Raise(type, message, detail) ==
    [kind |-> "raise", type |-> type, message |-> message, detail |-> detail]

NoDetail == [type |-> "none", msg |-> "none"]

\* _chat_completion on response r of the service
ChatCompletion(r) ==
    CASE r.kind = "http_error" ->
            Raise("AIFormattingError", "unavailable", [type |-> "HTTPError", msg |-> "http"])
      [] r.kind \in {"url_error", "connect_timeout"} ->
            Raise("AIFormattingError", "network", [type |-> "URLError", msg |-> r.kind])
      [] r.kind = "read_timeout" ->
            Raise("TimeoutError", "none", NoDetail)
      [] r.kind = "body_not_json" ->
            Raise("AIFormattingError", "unexpected_format",
                  [type |-> "JSONDecodeError", msg |-> "body"])
      [] r.kind = "bad_envelope" ->
            Raise("AIFormattingError", "unexpected_format",
                  [type |-> "KeyError", msg |-> "envelope"])
      [] OTHER -> [kind |-> "content", content |-> r.content]

(* Inputs: what the service can answer *)

GoodPayload ==
    [issue |-> <<"l", "e", "a", "k">>, urgency |-> "High", category |-> "Plumbing",
     confidence |-> [category |-> 90, urgency |-> 80],
     needs_followup |-> FALSE, followup_questions |-> <<>>]

LoosePayload ==
    [issue |-> <<" ", "l", "e", "a", "k">>, urgency |-> " high ",
     category |-> "PLUMBING", confidence |-> [category |-> 100, urgency |-> 0],
     needs_followup |-> TRUE,
     followup_questions |-> << <<" ", "q">>, <<"q">>, <<" ">> >>]

Payloads ==
    {GoodPayload, LoosePayload,
     [GoodPayload EXCEPT !.urgency = "urgent"],
     [GoodPayload EXCEPT !.needs_followup = TRUE, !.followup_questions = << <<" ">> >>],
     [GoodPayload EXCEPT !.confidence.category = 150],
     [issue |-> <<"l", "e", "a", "k">>, urgency |-> "Low", category |-> "General"]}

Text(fence, prose, json) == [text |-> TRUE, fence |-> fence, prose |-> prose, json |-> json]

Contents ==
    {Text(FALSE, FALSE, [shape |-> "object", v |-> p]) : p \in Payloads}
    \cup {Text(TRUE, FALSE, [shape |-> "object", v |-> LoosePayload]),
          Text(FALSE, TRUE, [shape |-> "object", v |-> GoodPayload]),
          Text(FALSE, TRUE, [shape |-> "none"]),
          Text(FALSE, TRUE, [shape |-> "broken"]),
          Text(FALSE, FALSE, [shape |-> "array"]),
          [text |-> FALSE]}

Responses ==
    {[kind |-> k] : k \in {"http_error", "url_error", "connect_timeout",
                            "read_timeout", "body_not_json", "bad_envelope"}}
    \cup {[kind |-> "content", content |-> c] : c \in Contents}

ApiKeys == {"", "sk-test"}

\* the caller enters format_issue
FormatIssue ==
    /\ fpc = "idle"
    /\ \E k \in ApiKeys : fkey' = k
    /\ fpc' = "entered"
    /\ UNCHANGED <<fresp, fcalls, fcontent, ferror, fresult>>
    /\ UNCHANGED <<storeVars, subVars, utilVars>>

\* format_issue without the credential check
CheckCredentialMut ==
    /\ fpc = "entered"
    /\ fpc' = "initial_call"
    /\ UNCHANGED <<fkey, fresp, fcalls, fcontent, ferror, fresult>>
    /\ UNCHANGED <<storeVars, subVars, utilVars>>

\* "if not self._settings.openai_api_key": ConfigurationError
CheckCredential ==
    /\ fpc = "entered"
    /\ IF fkey = ""
       THEN /\ fresult' = Raise("ConfigurationError", "formatting_unavailable", NoDetail)
            /\ fpc' = "done"
       ELSE /\ fpc' = "initial_call"
            /\ UNCHANGED fresult
    /\ UNCHANGED <<fkey, fresp, fcalls, fcontent, ferror>>
    /\ UNCHANGED <<storeVars, subVars, utilVars>>

\* the first _chat_completion, retried when the transport fails
ChatCompletionInitialMut ==
    /\ fpc = "initial_call"
    /\ \E r \in Responses :
          /\ fresp' = Append(fresp, r)
          /\ fcalls' = fcalls + 1
          /\ IF ChatCompletion(r).kind = "raise"
             THEN /\ fpc' = "repair_call"
                  /\ UNCHANGED <<fcontent, fresult>>
             ELSE /\ fcontent' = <<ChatCompletion(r).content>>
                  /\ fpc' = "initial_parse"
                  /\ UNCHANGED fresult
    /\ UNCHANGED <<fkey, ferror>>
    /\ UNCHANGED <<storeVars, subVars, utilVars>>

\* initial_content = self._chat_completion(messages)
ChatCompletionInitial ==
    /\ fpc = "initial_call"
    /\ \E r \in Responses :
          /\ fresp' = Append(fresp, r)
          /\ fcalls' = fcalls + 1
          /\ IF ChatCompletion(r).kind = "raise"
             THEN /\ fresult' = ChatCompletion(r)
                  /\ fpc' = "done"
                  /\ UNCHANGED fcontent
             ELSE /\ fcontent' = <<ChatCompletion(r).content>>
                  /\ fpc' = "initial_parse"
                  /\ UNCHANGED fresult
    /\ UNCHANGED <<fkey, ferror>>
    /\ UNCHANGED <<storeVars, subVars, utilVars>>

\* the first _parse_and_validate, with the failure raised instead of repaired
ParseInitialMut ==
    /\ fpc = "initial_parse"
    /\ IF ~fcontent[1].text
       THEN /\ fresult' = Raise("AttributeError", "none", NoDetail)
            /\ fpc' = "done"
            /\ UNCHANGED ferror
       ELSE IF ParseAndValidate(fcontent[1]).ok
            THEN /\ fresult' = [kind |-> "ok", issue |-> ParseAndValidate(fcontent[1]).value]
                 /\ fpc' = "done"
                 /\ UNCHANGED ferror
            ELSE /\ ferror' = ParseAndValidate(fcontent[1]).error
                 /\ fresult' = Raise("AIFormattingError", "could_not_format",
                                     ParseAndValidate(fcontent[1]).error)
                 /\ fpc' = "done"
    /\ UNCHANGED <<fkey, fresp, fcalls, fcontent>>
    /\ UNCHANGED <<storeVars, subVars, utilVars>>

\* "try: return self._parse_and_validate(initial_content)" and its except
\* clause; a content that is not a string has no strip()
ParseInitial ==
    /\ fpc = "initial_parse"
    /\ IF ~fcontent[1].text
       THEN /\ fresult' = Raise("AttributeError", "none", NoDetail)
            /\ fpc' = "done"
            /\ UNCHANGED ferror
       ELSE IF ParseAndValidate(fcontent[1]).ok
            THEN /\ fresult' = [kind |-> "ok", issue |-> ParseAndValidate(fcontent[1]).value]
                 /\ fpc' = "done"
                 /\ UNCHANGED ferror
            ELSE /\ ferror' = ParseAndValidate(fcontent[1]).error
                 /\ fpc' = "repair_call"
                 /\ UNCHANGED fresult
    /\ UNCHANGED <<fkey, fresp, fcalls, fcontent>>
    /\ UNCHANGED <<storeVars, subVars, utilVars>>

\* _repair_once: the second _chat_completion
RepairOnce ==
    /\ fpc = "repair_call"
    /\ \E r \in Responses :
          /\ fresp' = Append(fresp, r)
          /\ fcalls' = fcalls + 1
          /\ IF ChatCompletion(r).kind = "raise"
             THEN /\ fresult' = ChatCompletion(r)
                  /\ fpc' = "done"
                  /\ UNCHANGED fcontent
             ELSE /\ fcontent' = Append(fcontent, ChatCompletion(r).content)
                  /\ fpc' = "repair_parse"
                  /\ UNCHANGED fresult
    /\ UNCHANGED <<fkey, ferror>>
    /\ UNCHANGED <<storeVars, subVars, utilVars>>

\* the second _parse_and_validate, reporting the first error as the detail
ParseRepairedMut ==
    /\ fpc = "repair_parse"
    /\ LET repaired_content == fcontent[Len(fcontent)]
       IN IF ~repaired_content.text
          THEN fresult' = Raise("AttributeError", "none", NoDetail)
          ELSE IF ParseAndValidate(repaired_content).ok
               THEN fresult' = [kind |-> "ok",
                                issue |-> ParseAndValidate(repaired_content).value]
               ELSE fresult' = Raise("AIFormattingError", "could_not_format", ferror)
    /\ fpc' = "done"
    /\ UNCHANGED <<fkey, fresp, fcalls, fcontent, ferror>>
    /\ UNCHANGED <<storeVars, subVars, utilVars>>

\* "try: return self._parse_and_validate(repaired_content)" and its except clause
ParseRepaired ==
    /\ fpc = "repair_parse"
    /\ LET repaired_content == fcontent[Len(fcontent)]
       IN IF ~repaired_content.text
          THEN fresult' = Raise("AttributeError", "none", NoDetail)
          ELSE IF ParseAndValidate(repaired_content).ok
               THEN fresult' = [kind |-> "ok",
                                issue |-> ParseAndValidate(repaired_content).value]
               ELSE fresult' = Raise("AIFormattingError", "could_not_format",
                                     ParseAndValidate(repaired_content).error)
    /\ fpc' = "done"
    /\ UNCHANGED <<fkey, fresp, fcalls, fcontent, ferror>>
    /\ UNCHANGED <<storeVars, subVars, utilVars>>

NextFormatter ==
    \/ FormatIssue
    \/ CheckCredential
    \/ ChatCompletionInitial
    \/ ParseInitial
    \/ RepairOnce
    \/ ParseRepaired

SpecFormatter == Init /\ [][NextFormatter]_vars

----------------------------------------------------------------------------
(* Properties of format_issue *)

IsText(r) == r.kind = "content" /\ r.content.text

\* the response carried a text that _parse_and_validate rejects
FailsValidation(r) == IsText(r) /\ ~ParseAndValidate(r.content).ok

\* the response carried a text that _parse_and_validate accepts
Validates(r) == IsText(r) /\ ParseAndValidate(r.content).ok

C4_AtMostTwoCalls ==
    /\ fcalls <= 2
    /\ fcalls = Len(fresp)
    /\ fcalls = 2 => FailsValidation(fresp[1])
    /\ (fpc # "initial_call" /\ Len(fresp) >= 1 /\ fresp[1].kind # "content")
       => /\ fpc = "done"
          /\ fcalls = 1
          /\ fresult.kind = "raise"

\* the first call timed out and format_issue ended after it
C4_Witness ==
    /\ fpc = "done" /\ fcalls = 1
    /\ fresp[1].kind \in {"connect_timeout", "read_timeout"}
    /\ fresult.kind = "raise"

\* C20: with a credential configured, every failing outcome of format_issue
\* (provider timeout, non-2xx status, unreachable host, a body that is not
\* JSON, a missing key or empty choices, a content that is null or not a
\* string, two invalid answers) is an AIFormattingError.
C20_FailuresAreFormattingErrors ==
    (fpc = "done" /\ fkey # "" /\ fresult.kind = "raise")
    => fresult.type = "AIFormattingError"

----------------------------------------------------------------------------
(* The formatter and the record store in one process *)

NextApp ==
    \/ NextFormatter
    \/ NextReplay

SpecApp == Init /\ [][NextApp]_vars

\* format_issue has ended and no credential is configured
NoCredential == fpc = "done" /\ fkey = ""

\* C19: with no API credential configured, format_issue fails with
\* ConfigurationError without any network call, response or repair attempt;
\* and the store operations still work: list_issues returns every record,
\* get_issue the record asked for, update_status and add_comment store and
\* return the updated record (or raise not-found for an unknown id).
C19_NoCredential ==
    NoCredential
    => /\ fresult = Raise("ConfigurationError", "formatting_unavailable", NoDetail)
       /\ fcalls = 0 /\ fresp = <<>> /\ fcontent = <<>>
       /\ \A t \in Threads :
             pc[t] = "returned"
             => CASE op[t].kind = "list_issues" ->
                         /\ result[t].kind = "list"
                         /\ {result[t].list[i] : i \in 1..Len(result[t].list)}
                                = {snap[t].seen[id] : id \in DOMAIN snap[t].seen}
                  [] op[t].kind = "get_issue" ->
                         IF op[t].id \in DOMAIN snap[t].seen
                         THEN result[t] = [kind |-> "issue",
                                           issue |-> snap[t].seen[op[t].id]]
                         ELSE result[t].kind = "absent"
                  [] op[t].kind \in {"update_status", "add_comment"} ->
                         IF op[t].id \in DOMAIN snap[t].seen
                         THEN /\ result[t].kind = "issue"
                              /\ LogicalState[op[t].id] = result[t].issue
                              /\ result[t].issue # snap[t].seen[op[t].id]
                         ELSE result[t].kind = "not_found"
                  [] OTHER -> TRUE

\* format_issue failed for want of a credential and update_status has stored
\* the new status
C19_Witness ==
    /\ NoCredential
    /\ fresult.kind = "raise" /\ fresult.type = "ConfigurationError"
    /\ \E t \in Threads :
          /\ pc[t] = "returned" /\ op[t].kind = "update_status"
          /\ result[t].kind = "issue"
          /\ LogicalState[op[t].id].status = "IN_PROGRESS"
          /\ snap[t].seen[op[t].id].status = "OPEN"

----------------------------------------------------------------------------
(* core/sanitize.py *)

\* CONTROL_CHARS_PATTERN.sub(" ", ...): the class [\x00-\x08\x0B-\x1F\x7F]
\* holds the ASCII controls ("CTL") and the carriage return, but neither the
\* tab, the newline nor the controls U+0080..U+009F ("C1")
ReplaceControls(s) ==
    [i \in 1..Len(s) |-> IF s[i] \in {"CTL", "CR"} THEN " " ELSE s[i]]

\* cleaned.replace("\r", "\n")
ReplaceCR(s) == [i \in 1..Len(s) |-> IF s[i] = "CR" THEN "NL" ELSE s[i]]

RECURSIVE DropWhileIn(_, _)
DropWhileIn(s, chars) ==
    IF s # <<>> /\ Head(s) \in chars THEN DropWhileIn(Tail(s), chars) ELSE s

\* re.sub(r"[ \t]+", " ", ...)
RECURSIVE CollapseBlanks(_)
CollapseBlanks(s) ==
    IF s = <<>> THEN <<>>
    ELSE IF Head(s) \in {" ", "TAB"}
         THEN <<" ">> \o CollapseBlanks(DropWhileIn(s, {" ", "TAB"}))
         ELSE <<Head(s)>> \o CollapseBlanks(Tail(s))

\* re.sub(r"\n{3,}", "\n\n", ...)
RECURSIVE CollapseNewlines(_)
CollapseNewlines(s) ==
    IF s = <<>> THEN <<>>
    ELSE IF Head(s) = "NL"
         THEN LET rest == DropWhileIn(s, {"NL"})
                  run == Len(s) - Len(rest)
              IN (IF run >= 2 THEN <<"NL", "NL">> ELSE <<"NL">>) \o CollapseNewlines(rest)
         ELSE <<Head(s)>> \o CollapseNewlines(Tail(s))

Truncate(s, n) == SubSeq(s, 1, IF Len(s) < n THEN Len(s) ELSE n)

\* sanitize_user_text; an absent text is the empty text ("text or ''")
SanitizeUserText(text, max_chars) ==
    Truncate(Strip(CollapseNewlines(CollapseBlanks(ReplaceCR(ReplaceControls(text))))),
             max_chars)

FilenameSafeChars == {"a", "b", "p", "1", ".", "_", "-"}

\* sanitized[:255]
MaxFilenameLen == 255

\* sanitize_filename
SanitizeFilename(filename) ==
    IF filename = <<>> THEN <<"u", "p", "l", "o", "a", "d">>
    ELSE Truncate([i \in 1..Len(filename) |->
                      IF filename[i] \in FilenameSafeChars THEN filename[i] ELSE "_"],
                  MaxFilenameLen)

----------------------------------------------------------------------------
(* models/issue.py: IssueMetadata; core/workflows.py *)

AbsentText == <<>>

\* IssueMetadata(...): strip_text turns a blank text into None, and None is
\* not accepted for property_name, building and unit_number
IssueMetadataNew(property_name, building, unit_number, area) ==
    IF Strip(property_name) = <<>> \/ Len(Strip(property_name)) > 120
          \/ Strip(building) = <<>> \/ Len(Strip(building)) > 120
          \/ Strip(unit_number) = <<>> \/ Len(Strip(unit_number)) > 30
          \/ Len(Strip(area)) > 120
    THEN [ok |-> FALSE]
    ELSE [ok |-> TRUE,
          value |-> [property_name |-> Strip(property_name),
                     building |-> Strip(building),
                     unit_number |-> Strip(unit_number),
                     area |-> Strip(area)]]

\* IssueWorkflowService._sanitize_metadata
SanitizeMetadata(metadata) ==
    IssueMetadataNew(SanitizeUserText(metadata.property_name, 120),
                     SanitizeUserText(metadata.building, 120),
                     SanitizeUserText(metadata.unit_number, 30),
                     SanitizeUserText(metadata.area, 120))

\* IssueWorkflowService._normalize_image_mime
NormalizeImageMime(image_mime) ==
    IF image_mime \in {NoneVal, ""} THEN NoneVal
    ELSE IF LowerStrip(image_mime) \in AllowedImageMime
         THEN LowerStrip(image_mime)
         ELSE NoneVal

\* the byte ceiling and the note length limit of the configuration, scaled down
MaxUploadBytes == 2
MaxInputChars == 3

NoBytes == -1

\* the keyword arguments submit_issue passes to format_issue, and the
\* parameters format_issue declares
SubmitFormatKwargs == {"source", "metadata", "note_text", "image_filename",
                       "image_bytes", "image_mime"}

FormatIssueParams == {"source", "metadata", "note_text", "image_filename",
                      "image_bytes"}

SubmitInputs ==
    [source : {"note", "photo"},
     note_text : {<<>>, <<"CTL", " ">>, <<"a">>, <<"a", " ", " ", "b", "a">>},
     metadata : {m.value : m \in {x \in {IssueMetadataNew(n, <<"b">>, <<"1">>, a) :
                                         n \in {<<"a">>, <<"CTL">>},
                                         a \in {AbsentText, <<"a">>}} : x.ok}},
     image_bytes : {NoBytes, 0, 1, MaxUploadBytes + 1},
     image_filename : {<<>>, <<"a", ".", "p">>},
     image_mime : {NoneVal, "image/png", "IMAGE/PNG", "image/gif"}]

UserVisibleError(message) == Raise("UserVisibleError", message, NoDetail)

\* submit_issue from its first line to the call of formatter.format_issue.
\* format_issue does not declare image_mime, so the call raises TypeError
\* before the formatter runs; the router, the upload and the store are not
\* reached.
SubmitOutcome(in) ==
    LET sanitized_note_text == SanitizeUserText(in.note_text, MaxInputChars)
        sanitized_metadata == SanitizeMetadata(in.metadata)
        has_note == sanitized_note_text # <<>>
        has_image == in.image_bytes > 0
        normalized_image_mime ==
            IF has_image THEN NormalizeImageMime(in.image_mime) ELSE NoneVal
    IN IF ~sanitized_metadata.ok
       THEN [out |-> Raise("ValidationError", "none", NoDetail), format |-> 0]
       ELSE IF ~has_note /\ ~has_image
       THEN [out |-> UserVisibleError("add_note_or_photo"), format |-> 0]
       ELSE IF in.source = "note" /\ ~has_note
       THEN [out |-> UserVisibleError("enter_notes"), format |-> 0]
       ELSE IF has_image /\ in.image_bytes > MaxUploadBytes
       THEN [out |-> UserVisibleError("image_too_large"), format |-> 0]
       ELSE IF has_image /\ normalized_image_mime = NoneVal
       THEN [out |-> UserVisibleError("unsupported_image_type"), format |-> 0]
       ELSE IF ~(SubmitFormatKwargs \subseteq FormatIssueParams)
       THEN [out |-> Raise("TypeError", "none", NoDetail), format |-> 1]
       ELSE [out |-> NoResult, format |-> 1]

\* what the service would answer to a request made during the submission
ServiceAnswers ==
    {[kind |-> "content", content |-> Text(FALSE, FALSE, [shape |-> "object", v |-> p])] :
        p \in {GoodPayload, LoosePayload}}
    \cup {[kind |-> k] : k \in {"http_error", "url_error"}}

\* one call of submit_issue, under some configuration and some service
SubmitIssue ==
    /\ spc = "idle"
    /\ \E k \in ApiKeys : fkey' = k
    /\ \E r \in ServiceAnswers : sservice' = r
    /\ \E in \in SubmitInputs :
          /\ sin' = in
          /\ sout' = SubmitOutcome(in).out
          /\ sformat' = sformat + SubmitOutcome(in).format
    /\ spc' = "done"
    /\ UNCHANGED uploads
    /\ UNCHANGED <<fpc, fresp, fcalls, fcontent, ferror, fresult>>
    /\ UNCHANGED <<storeVars, utilVars>>

NextSubmit == SubmitIssue

SpecSubmit == Init /\ [][NextSubmit]_vars

----------------------------------------------------------------------------
(* Properties of submit_issue *)

\* the input is one that submit_issue has to reject
InvalidSubmission(in) ==
    LET note == SanitizeUserText(in.note_text, MaxInputChars)
        has_image == in.image_bytes > 0
    IN \/ note = <<>> /\ ~has_image
       \/ in.source = "note" /\ note = <<>>
       \/ has_image /\ in.image_bytes > MaxUploadBytes
       \/ has_image /\ NormalizeImageMime(in.image_mime) = NoneVal

\* no formatter call, no upload file and no record
NoExternalEffect ==
    /\ sformat = 0
    /\ uploads = {}
    /\ rewrites = 0
    /\ LogicalState = serial

\* the input passes every check of submit_issue
ValidSubmission(in) == SanitizeMetadata(in.metadata).ok /\ ~InvalidSubmission(in)

\* no upload file and no change of the persisted records
NothingPersisted ==
    /\ uploads = {}
    /\ rewrites = 0
    /\ LogicalState = serial

\* C17: successful submission. For input that passes validation, with a
\* credential configured and a service answer that validates, submit_issue
\* calls the formatter once and returns a new IssueReport with status OPEN
\* and no comments, which is persisted: replaying the log yields that record
\* under its report_id.
C17_SuccessfulSubmission ==
    (spc = "done" /\ ValidSubmission(sin) /\ fkey # "" /\ Validates(sservice))
    => /\ sout.kind = "ok"
       /\ sformat = 1
       /\ sout.issue.status = "OPEN"
       /\ sout.issue.comments = <<>>
       /\ sout.issue.report_id \in DOMAIN LogicalState
       /\ LogicalState[sout.issue.report_id] = sout.issue

\* C18: when the formatter fails inside submit_issue, with the
\* ConfigurationError of a missing credential or with the AIFormattingError
\* of a failed service call, submit_issue raises that same error, no upload
\* file is written and the persisted records are unchanged.
C18_FormatterFailurePropagates ==
    (spc = "done" /\ ValidSubmission(sin))
    => /\ fkey = ""
          => /\ sout = Raise("ConfigurationError", "formatting_unavailable", NoDetail)
             /\ NothingPersisted
       /\ (fkey # "" /\ ChatCompletion(sservice).kind = "raise")
          => /\ sout = ChatCompletion(sservice)
             /\ NothingPersisted

\* core/errors.py: UserVisibleError and its subclasses
UserVisibleErrors ==
    {"UserVisibleError", "ConfigurationError", "AIFormattingError", "PersistenceError"}

\* C21: every failure of submit_issue reaches the caller as a UserVisibleError
\* or one of its subclasses ConfigurationError, AIFormattingError and
\* PersistenceError; no other exception type leaves submit_issue.
C21_OnlyUserVisibleErrors ==
    (spc = "done" /\ sout.kind = "raise") => sout.type \in UserVisibleErrors

\* C5: submit_issue on invalid input (no note and no image, source note
\* without a note, an image over the byte ceiling, an image whose MIME type
\* is not accepted) fails with a user-visible rejection, and the formatter is
\* not called, no upload is written and no record is persisted.
C5_RejectsInvalidInput ==
    (spc = "done" /\ InvalidSubmission(sin))
    => /\ sout.kind = "raise"
       /\ sout.type = "UserVisibleError"
       /\ NoExternalEffect

----------------------------------------------------------------------------
(* core/workflows.py: _save_image_upload.  A path is the sequence of its   *)
(* components; the file system has no symbolic links.                      *)

\* Path.parents: every proper ancestor
PathParents(p) == {SubSeq(p, 1, n) : n \in 0..(Len(p) - 1)}

RECURSIVE ResolveFrom(_, _)
ResolveFrom(acc, rest) ==
    IF rest = <<>> THEN acc
    ELSE IF Head(rest) = ".."
         THEN ResolveFrom(IF acc = <<>> THEN acc ELSE SubSeq(acc, 1, Len(acc) - 1),
                          Tail(rest))
         ELSE ResolveFrom(Append(acc, Head(rest)), Tail(rest))

\* Path.resolve() of an absolute path: ".." components are folded
Resolve(p) == ResolveFrom(<<>>, p)

MimeToExtension ==
    [m \in AllowedImageMime |-> IF m = "image/png" THEN ".png" ELSE ".jpg"]

\* Path(image_filename or "").suffix.lower() on the file names the model uses
SuffixLower(image_filename) ==
    CASE image_filename = "a.PNG" -> ".png"
      [] image_filename = "b.jpeg" -> ".jpeg"
      [] image_filename = "c.gif" -> ".gif"
      [] OTHER -> ""

\* the extension _save_image_upload settles on
UploadExtension(image_filename, image_mime) ==
    IF SuffixLower(image_filename) \in {".png", ".jpg", ".jpeg"}
    THEN SuffixLower(image_filename)
    ELSE MimeToExtension[image_mime]

\* uploads_root / f"{report_id}{extension}": report_id split at its separators
TargetName(report_id, extension) ==
    SubSeq(report_id, 1, Len(report_id) - 1) \o <<report_id[Len(report_id)] \o extension>>

\* _save_image_upload without the check of target_path.parents
SaveImageUploadMut(a) ==
    LET extension == UploadExtension(a.image_filename, a.image_mime)
        uploads_root == Resolve(a.uploads_dir)
        target_path == Resolve(uploads_root \o TargetName(a.report_id, extension))
        project_root == Resolve(a.project_root)
    IN IF a.io = "open_fails"
       THEN [out |-> Raise("UserVisibleError", "could_not_store",
                           [type |-> "OSError", msg |-> a.io]),
             files |-> {}]
       ELSE IF a.io = "write_fails"
       THEN [out |-> Raise("UserVisibleError", "could_not_store",
                           [type |-> "OSError", msg |-> a.io]),
             files |-> {target_path}]
       ELSE IF ~IsPrefix(project_root, target_path)
       THEN [out |-> UserVisibleError("could_not_resolve_path"), files |-> {target_path}]
       ELSE [out |-> [kind |-> "ok",
                      path |-> SubSeq(target_path, Len(project_root) + 1,
                                      Len(target_path))],
             files |-> {target_path}]

\* _save_image_upload: what it returns or raises, and the files it leaves
SaveImageUpload(a) ==
    LET extension == UploadExtension(a.image_filename, a.image_mime)
        uploads_root == Resolve(a.uploads_dir)
        target_path == Resolve(uploads_root \o TargetName(a.report_id, extension))
        project_root == Resolve(a.project_root)
    IN IF uploads_root \notin PathParents(target_path)
       THEN [out |-> UserVisibleError("invalid_upload_target"), files |-> {}]
       ELSE IF a.io = "open_fails"
       THEN [out |-> Raise("UserVisibleError", "could_not_store",
                           [type |-> "OSError", msg |-> a.io]),
             files |-> {}]
       ELSE IF a.io = "write_fails"
       THEN [out |-> Raise("UserVisibleError", "could_not_store",
                           [type |-> "OSError", msg |-> a.io]),
             files |-> {target_path}]
       ELSE IF ~IsPrefix(project_root, target_path)
       THEN [out |-> UserVisibleError("could_not_resolve_path"), files |-> {target_path}]
       ELSE [out |-> [kind |-> "ok",
                      path |-> SubSeq(target_path, Len(project_root) + 1,
                                      Len(target_path))],
             files |-> {target_path}]

\* arguments, configuration and the behaviour of the disk
SaveImageUploadInputs ==
    [fn : {"save_image_upload"},
     report_id : {<<"u1">>, <<"..", "u1">>, <<"sub", "u1">>,
                  <<"sub", "..", "..", "..", "etc", "u1">>},
     image_filename : {NoneVal, "a.PNG", "b.jpeg", "c.gif"},
     image_mime : AllowedImageMime,
     uploads_dir : {<<"srv", "app", "uploads">>, <<"srv", "app", "tmp", "..", "uploads">>},
     project_root : {<<"srv", "app">>, <<"opt">>},
     io : {"ok", "open_fails", "write_fails"}]

\* one call of _save_image_upload
SaveImageUploadCall ==
    /\ upc = "idle"
    /\ \E a \in SaveImageUploadInputs :
          /\ uin' = a
          /\ uout' = SaveImageUpload(a).out
          /\ uploads' = uploads \cup SaveImageUpload(a).files
    /\ upc' = "done"
    /\ UNCHANGED <<spc, sin, sout, sformat, sservice>>
    /\ UNCHANGED <<storeVars, fmtVars>>


\* ---------------------------------------------------------------------
\* services/router.py: IssueRouter
\* ---------------------------------------------------------------------

\* _category_defaults.get(category, ["Maintenance Team"])
CategoryDefaults(category) ==
    CASE category = "Safety" -> <<"On-Call Safety Team", "Property Manager">>
      [] category = "Electrical" -> <<"Licensed Electrical Vendor", "Maintenance Supervisor">>
      [] category = "Plumbing" -> <<"Plumbing Vendor", "Maintenance Team">>
      [] category = "HVAC" -> <<"HVAC Vendor", "Maintenance Team">>
      [] category = "Appliance" -> <<"Appliance Vendor", "Maintenance Team">>
      [] category = "Cosmetic" -> <<"Turn Team">>
      [] category = "General" -> <<"Maintenance Team">>
      [] OTHER -> <<"Maintenance Team">>

HighPriorityRecipients == <<"Community Manager">>

\* the order of str comparison on the recipient names the router knows
RecipientOrder ==
    <<"Appliance Vendor", "Community Manager", "HVAC Vendor",
      "Licensed Electrical Vendor", "Maintenance Supervisor", "Maintenance Team",
      "On-Call Safety Team", "Plumbing Vendor", "Property Manager", "Turn Team">>

RecipientRank(r) == CHOOSE i \in 1..Len(RecipientOrder) : RecipientOrder[i] = r

\* sorted(set(recipients))
RECURSIVE SortedRecipients(_)
SortedRecipients(S) ==
    IF S = {} THEN <<>>
    ELSE LET least == CHOOSE r \in S :
                         \A q \in S : RecipientRank(r) <= RecipientRank(q)
         IN <<least>> \o SortedRecipients(S \ {least})

RouteRecipientsMut(category, urgency) ==
    LET recipients == CategoryDefaults(category) \o HighPriorityRecipients
    IN SortedRecipients({recipients[i] : i \in DOMAIN recipients})

\* route_recipients(category, urgency)
RouteRecipients(category, urgency) ==
    LET recipients == IF urgency = "High"
                      THEN CategoryDefaults(category) \o HighPriorityRecipients
                      ELSE CategoryDefaults(category)
    IN SortedRecipients({recipients[i] : i \in DOMAIN recipients})

RouteRecipientsCall ==
    /\ upc = "idle"
    /\ \E category \in IssueCategory, urgency \in Urgency :
          /\ uin' = [fn |-> "route_recipients", category |-> category,
                     urgency |-> urgency]
          /\ uout' = [kind |-> "ok", value |-> RouteRecipients(category, urgency)]
    /\ upc' = "done"
    /\ UNCHANGED <<spc, sin, sout, sformat, sservice, uploads>>
    /\ UNCHANGED <<storeVars, fmtVars>>


\* ---------------------------------------------------------------------
\* calls of the two sanitizers
\* ---------------------------------------------------------------------

MaxTextLen == 3

MaxRun == 3

TextChars == {"a", " ", "TAB", "NL", "CR", "CTL", "C1"}

\* every text of up to MaxTextLen characters, and runs of one character
\* between two letters
SanitizeTexts ==
    UNION {[1..n -> TextChars] : n \in 0..MaxTextLen}
    \cup {<<"a">> \o [i \in 1..k |-> c] \o <<"a">> : k \in 1..MaxRun, c \in TextChars}

SanitizeUserTextCall ==
    /\ upc = "idle"
    /\ \E text \in SanitizeTexts, max_chars \in 0..(MaxRun + 2) :
          /\ uin' = [fn |-> "sanitize_user_text", text |-> text, max_chars |-> max_chars]
          /\ uout' = [kind |-> "ok", value |-> SanitizeUserText(text, max_chars)]
    /\ upc' = "done"
    /\ UNCHANGED <<spc, sin, sout, sformat, sservice, uploads>>
    /\ UNCHANGED <<storeVars, fmtVars>>

FilenameChars == {"a", ".", "-", "/", " ", "CTL"}

\* the empty (or absent) name, every name of one or two characters, and one
\* name longer than the limit
FilenameInputs ==
    UNION {[1..n -> FilenameChars] : n \in 0..2}
    \cup {[i \in 1..(MaxFilenameLen + 1) |-> IF i = 2 THEN "/" ELSE "a"]}

SanitizeFilenameCall ==
    /\ upc = "idle"
    /\ \E filename \in FilenameInputs :
          /\ uin' = [fn |-> "sanitize_filename", filename |-> filename]
          /\ uout' = [kind |-> "ok", value |-> SanitizeFilename(filename)]
    /\ upc' = "done"
    /\ UNCHANGED <<spc, sin, sout, sformat, sservice, uploads>>
    /\ UNCHANGED <<storeVars, fmtVars>>

NextUtil ==
    \/ SaveImageUploadCall
    \/ RouteRecipientsCall
    \/ SanitizeUserTextCall
    \/ SanitizeFilenameCall

SpecUtil == Init /\ [][NextUtil]_vars

----------------------------------------------------------------------------
(* Properties of _save_image_upload *)

SaveImageUploadDone == upc = "done" /\ uin.fn = "save_image_upload"

\* the resolved uploads directory and the resolved target of the call
UploadsRootOf(a) == Resolve(a.uploads_dir)

UploadTargetOf(a) ==
    Resolve(UploadsRootOf(a)
            \o TargetName(a.report_id, UploadExtension(a.image_filename, a.image_mime)))

\* path p lies inside directory d, at any depth
InsideDir(d, p) == Len(d) < Len(p) /\ IsPrefix(d, p)

RouteRecipientsDone == upc = "done" /\ uin.fn = "route_recipients"

\* the recipients the claim expects, as a set
ExpectedRecipients(category, urgency) ==
    {CategoryDefaults(category)[i] : i \in DOMAIN CategoryDefaults(category)}
        \cup (IF urgency = "High" THEN {"Community Manager"} ELSE {})

\* C23: route_recipients(category, urgency) is the sorted, duplicate-free
\* list of the category's default recipients ("Maintenance Team" for a
\* category with no mapping), with "Community Manager" in it if and only if
\* urgency is High; (Safety, Low) gives exactly the two safety defaults and
\* (General, High) the general default plus the community manager.
C23_RouteRecipients ==
    RouteRecipientsDone
    => LET r == uout.value
       IN /\ uout.kind = "ok"
          /\ {r[i] : i \in DOMAIN r} = ExpectedRecipients(uin.category, uin.urgency)
          /\ \A i, j \in DOMAIN r :
                i < j => RecipientRank(r[i]) < RecipientRank(r[j])
          /\ ("Community Manager" \in {r[i] : i \in DOMAIN r}) <=> uin.urgency = "High"
          /\ uin.category = "Unknown" /\ uin.urgency # "High"
                => r = <<"Maintenance Team">>
          /\ uin.category = "Safety" /\ uin.urgency = "Low"
                => r = <<"On-Call Safety Team", "Property Manager">>
          /\ uin.category = "General" /\ uin.urgency = "High"
                => r = <<"Community Manager", "Maintenance Team">>

\* a high-urgency plumbing issue was routed: the community manager joins the
\* two defaults and the stored order of the defaults is not the sorted one
C23_Witness ==
    /\ RouteRecipientsDone
    /\ uin.category = "Plumbing" /\ uin.urgency = "High"
    /\ uout.value = <<"Community Manager", "Maintenance Team", "Plumbing Vendor">>

----------------------------------------------------------------------------
(* The follow-up invariant of AIFormattedIssue *)

\* the JSON objects format_issue has received so far
ReceivedPayloads ==
    {fcontent[i].json.v : i \in {j \in DOMAIN fcontent :
                                    /\ fcontent[j].text
                                    /\ fcontent[j].json.shape = "object"}}

\* payload p with its two follow-up fields replaced
WithFollowup(p, needs_followup, questions) ==
    [k \in DOMAIN p \cup {"needs_followup", "followup_questions"} |->
        IF k = "needs_followup" THEN needs_followup
        ELSE IF k = "followup_questions" THEN questions
        ELSE p[k]]

\* p is valid apart from its follow-up fields
OtherwiseValid(p) == AIValidate(WithFollowup(p, FALSE, <<>>)).ok

NeedsFollowupOf(p) == IF "needs_followup" \in DOMAIN p THEN p.needs_followup ELSE FALSE

QuestionsOf(p) == IF "followup_questions" \in DOMAIN p THEN p.followup_questions ELSE <<>>

\* C24: follow-up invariant. For every otherwise valid payload received,
\* validation fails with a validation error when needs_followup is true and
\* the normalized followup_questions (blank entries removed, duplicates
\* dropped) are empty, and succeeds when needs_followup is false and
\* followup_questions is empty; and every issue format_issue returns with
\* needs_followup true has at least one follow-up question.
C24_FollowupInvariant ==
    /\ \A p \in ReceivedPayloads :
          OtherwiseValid(p)
          => /\ (NeedsFollowupOf(p) /\ NormalizeFollowups(QuestionsOf(p)) = <<>>)
                => /\ ~AIValidate(p).ok
                   /\ AIValidate(p).error.type = "ValidationError"
             /\ (~NeedsFollowupOf(p) /\ QuestionsOf(p) = <<>>)
                => AIValidate(p).ok
    /\ (fpc = "done" /\ fresult.kind = "ok" /\ fresult.issue.needs_followup)
       => Len(fresult.issue.followup_questions) >= 1

\* the first answer asked for a follow-up with only a blank question and was
\* rejected; the repair answer carried a real question and was returned
C24_Witness ==
    /\ fpc = "done" /\ Len(fcontent) = 2
    /\ fcontent[1].text /\ fcontent[1].json.shape = "object"
    /\ OtherwiseValid(fcontent[1].json.v)
    /\ NeedsFollowupOf(fcontent[1].json.v)
    /\ QuestionsOf(fcontent[1].json.v) # <<>>
    /\ NormalizeFollowups(QuestionsOf(fcontent[1].json.v)) = <<>>
    /\ ferror = ValidationError("followup_questions")
    /\ fresult.kind = "ok"
    /\ fresult.issue.needs_followup
    /\ fresult.issue.followup_questions = << <<"q">> >>

----------------------------------------------------------------------------
(* Mutual exclusion of the store operations *)

\* thread t is between the entry and the exit of "with self._lock"
InLockedSection(t) == pc[t] \in {"locked", "unlock", "open_w", "write"}

\* thread t is in the middle of a rewrite: the log is truncated or incomplete
Rewriting(t) == pc[t] = "write"

\* C25: mutual exclusion. Every store operation does its load, and a
\* mutation its load-modify-rewrite, while it holds the one lock: at most one
\* thread is inside a load/rewrite section, that thread is the lock holder,
\* the log it loads is the log as it was when it took the lock, and no
\* thread about to load sees a log another thread is rewriting.
C25_MutualExclusion ==
    /\ \A t, u \in Threads : InLockedSection(t) /\ InLockedSection(u) => t = u
    /\ \A t \in Threads : InLockedSection(t) => lock = t
    /\ \A t \in Threads :
          pc[t] = "locked"
          => /\ file = snap[t].file
             /\ rewrites = snap[t].rewrites
             /\ \A u \in Threads : ~Rewriting(u)
    /\ \A t \in Threads :
          (pc[t] = "unlock" /\ op[t].kind \in {"list_issues", "get_issue"})
          => issues[t] = LoadIssuesMap(file)

\* a reader waits for the lock while another thread is half-way through a
\* rewrite of a log of two records
C25_Witness ==
    \E t, u \in Threads :
        /\ pc[t] = "write" /\ pending[t] # <<>> /\ file.lines # <<>>
        /\ pc[u] = "acquire" /\ op[u].kind \in {"list_issues", "get_issue"}

----------------------------------------------------------------------------
(* The shape of the log after a rewrite *)

\* line is a wrapper entry: a JSON object with entry_type "issue_report"
IsWrapperLine(line) ==
    /\ line.t = "json"
    /\ line.v.t = "obj"
    /\ "entry_type" \in DOMAIN line.v.v
    /\ line.v.v.entry_type = "issue_report"

\* some rewrite has been done and none is under way
RewriteCompleted ==
    /\ rewrites > 0
    /\ \A t \in Threads : pc[t] = "write" => pending[t] = <<>>

\* C26: after every successful mutation the log holds exactly one line per
\* report id of the logical state, each line is an entry with entry_type
\* "issue_report" carrying a valid record, and the lines are in ascending
\* order of created_at.
C26_OneLinePerId ==
    RewriteCompleted
    => /\ file.exists
       /\ \A i \in 1..Len(file.lines) :
             IsWrapperLine(file.lines[i]) /\ LineIssue(file.lines[i]) # <<>>
       /\ Len(file.lines) = Cardinality(DOMAIN LogicalState)
       /\ \A id \in DOMAIN LogicalState : Cardinality(ValidLinesFor(file, id)) = 1
       /\ \A i, j \in 1..Len(file.lines) :
             i < j => LineIssue(file.lines[i])[1].created_at
                          <= LineIssue(file.lines[j])[1].created_at

\* upsert_issue replaced the first record of the map by one created later:
\* the rewrite moved its line behind the line of the other record
C26_Witness ==
    /\ RewriteCompleted
    /\ lock = NoThread
    /\ lastOp.kind = "upsert_issue" /\ lastOp.existed /\ lastOp.id = "r1"
    /\ Len(file.lines) = 2
    /\ LineIssue(file.lines[2]) = <<lastOp.issue>>
    /\ LineIssue(file.lines[1])[1].created_at < LineIssue(file.lines[2])[1].created_at

----------------------------------------------------------------------------
(* Skipped lines and the rewrite *)

\* line is one that replay skips without taking a record from it
IsSkippedLine(line) == LineIssue(line) = <<>>

\* thread t has completed a mutation: the rewrite is written in full
MutationCompleted(t) ==
    /\ op[t].kind \in {"upsert_issue", "add_comment", "update_status"}
    /\ result[t].kind = "issue"
    /\ \/ pc[t] = "returned"
       \/ pc[t] = "write" /\ pending[t] = <<>>

\* C28: the lines replay skips are not carried into the in-memory map, so
\* after the next successful mutation the log has none of them: every line
\* of the log is the wrapper line of a record of the logical state, each
\* record has one line, and no skipped line of the old log remains.
C28_SkippedLinesDropped ==
    \A t \in Threads :
        MutationCompleted(t)
        => /\ \A i \in 1..Len(issues[t]) :
                 issues[t][i] = serial[issues[t][i].report_id]
           /\ \A i \in 1..Len(file.lines) :
                 /\ ~IsSkippedLine(file.lines[i])
                 /\ \E id \in DOMAIN serial : file.lines[i] = WrappedLine(serial[id])
           /\ \A id \in DOMAIN serial :
                 \E i \in 1..Len(file.lines) : file.lines[i] = WrappedLine(serial[id])
           /\ Len(file.lines) = Cardinality(DOMAIN serial)
           /\ \A j \in 1..Len(snap[t].file.lines) :
                 IsSkippedLine(snap[t].file.lines[j])
                 => \A i \in 1..Len(file.lines) : file.lines[i] # snap[t].file.lines[j]

\* update_status ran on a log of one record between a malformed line and a
\* wrapper line with an invalid payload: the rewrite left one line
C28_Witness ==
    \E t \in Threads :
        /\ MutationCompleted(t) /\ pc[t] = "returned"
        /\ op[t].kind = "update_status"
        /\ Len(snap[t].file.lines) = 3
        /\ snap[t].file.lines[1] = BadLine
        /\ ~IsSkippedLine(snap[t].file.lines[2])
        /\ snap[t].file.lines[3] = InvalidPayloadLine(SeedIssue("r1", 0, 0))
        /\ Len(file.lines) = 1

----------------------------------------------------------------------------
(* Uploads without a record *)

----------------------------------------------------------------------------
(* The store with a disk that can fail *)

PersistenceError(message) ==
    Raise("PersistenceError", message, [type |-> "OSError", msg |-> "io"])

\* _load_issues_map_unlocked: open("r") or a read raises OSError, turned into
\* PersistenceError; the exception leaves the "with self._lock" block
ReadFails(t) ==
    /\ UNCHANGED <<fmtVars, subVars, utilVars>>
    /\ pc[t] = "locked"
    /\ file.exists
    /\ result' = [result EXCEPT ![t] = PersistenceError("unable_to_read")]
    /\ pc' = [pc EXCEPT ![t] = "unlock"]
    /\ UNCHANGED <<now, file, lock, op, issues, pending, calls, rewrites, snap,
                   serial, lastOp>>

\* _rewrite_all_issues_unlocked: open("w") or a write raises OSError, turned
\* into PersistenceError; what was written so far stays in the log
WriteFails(t) ==
    /\ UNCHANGED <<fmtVars, subVars, utilVars>>
    /\ pc[t] \in {"open_w", "write"}
    /\ result' = [result EXCEPT ![t] = PersistenceError("unable_to_persist")]
    /\ pending' = [pending EXCEPT ![t] = <<>>]
    /\ pc' = [pc EXCEPT ![t] = "unlock"]
    /\ UNCHANGED <<now, file, lock, op, issues, calls, rewrites, snap, serial,
                   lastOp>>

\* the steps of thread t once it has entered an operation
ThreadStep(t) ==
    \/ Acquire(t)
    \/ ListIssuesLoad(t)
    \/ GetIssue(t)
    \/ UpsertIssue(t)
    \/ AddComment(t)
    \/ UpdateStatus(t)
    \/ ReadFails(t)
    \/ OpenForWrite(t)
    \/ WriteLine(t)
    \/ WriteFails(t)
    \/ CloseAndRelease(t)
    \/ Release(t)
    \/ ListIssuesSort(t)
    \/ Return(t)

NextIO ==
    \/ \E t \in Threads : Call(t)
    \/ \E t \in Threads : Acquire(t)
    \/ \E t \in Threads : ListIssuesLoad(t)
    \/ \E t \in Threads : GetIssue(t)
    \/ \E t \in Threads : UpsertIssue(t)
    \/ \E t \in Threads : AddComment(t)
    \/ \E t \in Threads : UpdateStatus(t)
    \/ \E t \in Threads : ReadFails(t)
    \/ \E t \in Threads : OpenForWrite(t)
    \/ \E t \in Threads : WriteLine(t)
    \/ \E t \in Threads : WriteFails(t)
    \/ \E t \in Threads : CloseAndRelease(t)
    \/ \E t \in Threads : Release(t)
    \/ \E t \in Threads : ListIssuesSort(t)
    \/ \E t \in Threads : Return(t)

\* every thread that is inside an operation keeps being scheduled
SpecIO == Init /\ [][NextIO]_vars /\ \A t \in Threads : WF_vars(ThreadStep(t))

\* thread t has left the operation it called: returned or raised
Exited(t) == pc[t] \in {"sort", "returned"}

\* C29: the store lock is released on every exit path. A thread that is not
\* inside a "with self._lock" block does not hold the lock, whether its
\* operation returned or raised the not-found or a storage PersistenceError;
\* the lock is held only by a thread inside the block; and every thread
\* waiting for the lock eventually acquires it and its operation ends.
C29_LockReleased ==
    /\ [](\A t \in Threads : ~InLockedSection(t) => lock # t)
    /\ [](lock # NoThread => InLockedSection(lock))
    /\ \A t \in Threads : (pc[t] = "acquire") ~> Exited(t)

\* one operation raised a storage error while rewriting, and another thread
\* took the lock after it
C29_Witness ==
    \E t, u \in Threads :
        /\ pc[t] = "returned"
        /\ result[t] = PersistenceError("unable_to_persist")
        /\ lock = u /\ pc[u] = "locked"

----------------------------------------------------------------------------
(* The sanitizers *)

SanitizeUserTextDone == upc = "done" /\ uin.fn = "sanitize_user_text"

SanitizeFilenameDone == upc = "done" /\ uin.fn = "sanitize_filename"

\* the characters of the model that are control characters, the tab and the
\* newline apart
ControlChars == {"CTL", "CR", "C1"}

\* some run of n or more consecutive characters c in s
HasRun(s, c, n) ==
    \E i \in 1..Len(s) : i + n - 1 <= Len(s) /\ \A j \in i..(i + n - 1) : s[j] = c

\* what C30 asks of sanitize_user_text, for the set of control characters cc
TextIsClean(cc) ==
    SanitizeUserTextDone
    => /\ uout.kind = "ok"
       /\ Len(uout.value) <= uin.max_chars
       /\ \A i \in 1..Len(uout.value) : uout.value[i] \notin cc \cup {"TAB"}
       /\ ~HasRun(uout.value, " ", 2)
       /\ ~HasRun(uout.value, "NL", 3)

\* what C30 asks of sanitize_filename
FilenameIsClean ==
    SanitizeFilenameDone
    => /\ uout.kind = "ok"
       /\ Len(uout.value) <= MaxFilenameLen
       /\ IF uin.filename = <<>>
          THEN uout.value = <<"u", "p", "l", "o", "a", "d">>
          ELSE \A i \in 1..Len(uout.value) : uout.value[i] \in FilenameSafeChars

\* C30: sanitize_user_text returns, for every text and every max_chars >= 0
\* and without raising, a string of at most max_chars characters with no
\* control character, no tab, no run of two or more spaces and no run of
\* three or more newlines; sanitize_filename returns a string of at most 255
\* characters of [A-Za-z0-9._-], or the placeholder for an empty name.
C30_SanitizersClean == TextIsClean(ControlChars) /\ FilenameIsClean

====
